---- MODULE Spec2Model ----
(***************************************************************************)
(* Movement-and-world core of the GridMove game: terrain grid, terrain     *)
(* generator, drag-direction controller, grid snap, collection and the     *)
(* inventory ledger.                                                       *)
(*                                                                         *)
(* Cells are pairs <<x, y>>.  A nullable value is a sequence: <<>> is      *)
(* null and <<v>> holds v; the target of a move is <<>> or <<x, y>>        *)
(* (targetX and targetY are always written together).                      *)
(***************************************************************************)
EXTENDS Integers, Sequences, FiniteSets, TLC

VARIABLES
    \* MapGenerator.generateMap
    gridSize,       \* this.gridSize
    maxRetries,     \* config.maxRetries
    genPc,          \* "idle" | "loop" | "after" | "returned"
    attempts,       \* local attempts
    genMap,         \* local terrainMap: <<>> (null) or <<grid>>
    genResult,      \* value returned by the last call: <<>> or <<grid>>
    \* TerrainComponent
    terrainMap,     \* this.terrainMap
    ret,            \* the last call on a component and what it returned
    \* InventoryComponent
    items,          \* this.items: sequence of [type, count]
    capacity,       \* this.capacity
    dirty,          \* this.dirty
    \* GridMoveGame: the world of one running game
    pc,             \* where World.update stands: "idle" between two frames,
                    \* else the system that runs next; "left" after the
                    \* game was switched away
    player,         \* the player entity: position, grid, target, moving,
                    \* velocity
    drag,           \* DragSystem: dragging, dragStart, nextDirection,
                    \* currentDirection
    inputManager,   \* InputManager: touching, touch (touchX, touchY)
    gameCurrentDirection,   \* game.currentDirection, the direction display
    itemEnts,       \* the item entities in world order: type, gridX, gridY,
                    \* collectable, collected, alpha
    \* ItemGenerator
    occupiedPositions,  \* this.occupiedPositions, a set of cells
    forbiddenAreas,     \* this.forbiddenAreas: sequence of [x, y, radius]
    placing         \* the running generateAllItems / generateItemType call:
                    \* pc, itemType, items (local), attempts (local), all
                    \* (called by generateAllItems), and the last result

genVars == <<gridSize, maxRetries, genPc, attempts, genMap, genResult>>
terrVars == <<terrainMap, ret>>
invVars == <<items, capacity, dirty>>
gameVars == <<pc, player, drag, inputManager, gameCurrentDirection, itemEnts>>
placeVars == <<occupiedPositions, forbiddenAreas, placing>>
vars == <<genVars, terrVars, invVars, gameVars, placeVars>>

----------------------------------------------------------------------------
(* Bounds of the model *)

GenSize == 4        \* gridSize of the generated maps
TerrSize == 2       \* gridSize of the terrain component driven directly
MaxCount == 3       \* largest count a ledger record is driven to
GameSize == 3       \* gridSize of the running game
HalfCell == 4       \* cellSize / 2 of the running game, in pixels
UiAreaY == 100      \* canvas.height - gameAreaBottom, where the UI area starts

(* Program constants *)

WATER == 0
LAND == 1
LandRatioPct == 65
CenterRadiusPct == 35
EdgeWaterRange == 3
MaxRetries == 5
PlayerSpeed == 250

----------------------------------------------------------------------------
(* Helpers *)

Sq(a) == a * a

Abs(a) == IF a < 0 THEN 0 - a ELSE a

Min2(a, b) == IF a < b THEN a ELSE b

Max2(a, b) == IF a > b THEN a ELSE b

Cells(n) == (0 .. n - 1) \X (0 .. n - 1)

\* The i-th cell in the order of the nested loops  for x ... for y ...
CellAt(n, i) == <<(i - 1) \div n, (i - 1) % n>>

CellIndex(n, c) == c[1] * n + c[2] + 1

----------------------------------------------------------------------------
(* The parts of the state as their constructors leave them *)

\* new MapGenerator(gridSize, config), generateMap not yet called
GenIdle ==
    /\ genPc = "idle"
    /\ attempts = 0
    /\ genMap = <<>>
    /\ genResult = <<>>

\* new InventoryComponent()
InvIdle ==
    /\ items = <<>>
    /\ dirty = FALSE

\* new InputManager(canvas), new DragSystem(...), new MovementComponent(speed),
\* no game running
GameIdle ==
    /\ pc = "left"
    /\ player = [position |-> <<0, 0>>, grid |-> <<0, 0>>, target |-> <<>>,
                 moving |-> FALSE, velocity |-> <<0, 0>>]
    /\ drag = [dragging |-> FALSE, dragStart |-> <<0, 0>>,
               nextDirection |-> <<>>, currentDirection |-> <<>>]
    /\ inputManager = [touching |-> FALSE, touch |-> <<0, 0>>]
    /\ gameCurrentDirection = "none"
    /\ itemEnts = <<>>

\* new ItemGenerator(gridSize, cellSize), nothing generated yet
PlaceIdle ==
    /\ occupiedPositions = {}
    /\ forbiddenAreas = <<>>
    /\ placing = [pc |-> "idle", itemType |-> "none", items |-> <<>>,
                  attempts |-> 0, all |-> FALSE, short |-> {}]

----------------------------------------------------------------------------
(* TerrainTypes *)

\* TERRAIN_CONFIG[terrainType]: <<>> when the table has no such key
TERRAIN_CONFIG(terrainType) ==
    CASE terrainType = WATER -> <<[walkable |-> FALSE, name |-> "water"]>>
      [] terrainType = LAND -> <<[walkable |-> TRUE, name |-> "land"]>>
      [] OTHER -> <<>>

\* TERRAIN_CONFIG[terrainType] || TERRAIN_CONFIG[TERRAIN_TYPES.LAND]
getTerrainConfig(terrainType) ==
    IF TERRAIN_CONFIG(terrainType) # <<>>
    THEN TERRAIN_CONFIG(terrainType)
    ELSE TERRAIN_CONFIG(LAND)

isTerrainWalkable(terrainType) == getTerrainConfig(terrainType)[1].walkable

----------------------------------------------------------------------------
(* MapGenerator *)

_createBaseMap(n) == [c \in Cells(n) |-> WATER]

Dist2ToCenter(n, c) == Sq(c[1] - n \div 2) + Sq(c[2] - n \div 2)

\* weights[x][y] > 0, i.e. distance < maxRadius = gridSize * centerRadius
WeightPositive(n, c) == 10000 * Dist2ToCenter(n, c) < Sq(n * CenterRadiusPct)

\* min(1, weight / maxRadius + 0.3) = 1, i.e. distance <= 0.3 * maxRadius:
\* Math.random() < 1 always holds, the cell always becomes land
ProbabilityIsOne(n, c) ==
    1000000 * Dist2ToCenter(n, c) <= 9 * Sq(n * CenterRadiusPct)

\* cells.sort((a, b) => b.weight - a.weight): descending weight is ascending
\* distance; the sort is stable, ties keep the order of the nested loops
SortedCells(n) ==
    LET S == {c \in Cells(n) : WeightPositive(n, c)}
        Before(a, b) ==
            \/ Dist2ToCenter(n, a) < Dist2ToCenter(n, b)
            \/ /\ Dist2ToCenter(n, a) = Dist2ToCenter(n, b)
               /\ CellIndex(n, a) < CellIndex(n, b)
        Rank(c) == Cardinality({a \in S : Before(a, c)}) + 1
    IN  [i \in 1 .. Cardinality(S) |-> CHOOSE c \in S : Rank(c) = i]

TargetLandCells(n) == (n * n * LandRatioPct) \div 100

\* The selection loop of _expandFromCenter.  heads: the cells whose draw
\* Math.random() < probability succeeds (0 < probability < 1).
RECURSIVE ExpandWalk(_, _, _, _, _, _)
ExpandWalk(n, cells, i, map, currentLandCells, heads) ==
    IF i > Len(cells) \/ currentLandCells >= TargetLandCells(n)
    THEN map
    ELSE IF ProbabilityIsOne(n, cells[i]) \/ cells[i] \in heads
         THEN ExpandWalk(n, cells, i + 1, [map EXCEPT ![cells[i]] = LAND],
                         currentLandCells + 1, heads)
         ELSE ExpandWalk(n, cells, i + 1, map, currentLandCells, heads)

_expandFromCenter(n, cells, map, heads) ==
    ExpandWalk(n, cells, 1, map, 0, heads)

DistanceToEdge(n, c) == Min2(Min2(c[1], c[2]), Min2(n - 1 - c[1], n - 1 - c[2]))

\* tails: the cells whose draw Math.random() < probability * 0.8 succeeds;
\* probability = 1 - distanceToEdge / edgeRange is in (0, 1] inside the range
_addEdgeWater(n, map, tails) ==
    [c \in Cells(n) |->
        IF DistanceToEdge(n, c) < EdgeWaterRange /\ c \in tails
        THEN WATER
        ELSE map[c]]

directionsEight ==
    << <<0, -1>>, <<0, 1>>, <<-1, 0>>, <<1, 0>>,
       <<-1, -1>>, <<1, -1>>, <<-1, 1>>, <<1, 1>> >>

\* up, down, left, right
directions == << <<0, -1>>, <<0, 1>>, <<-1, 0>>, <<1, 0>> >>

\* One pass of  for (const dir of directions)  for the dequeued cell
RECURSIVE BfsNeighbours(_, _, _, _, _)
BfsNeighbours(n, map, current, k, st) ==
    IF k > Len(directions)
    THEN st
    ELSE LET new == <<current[1] + directions[k][1], current[2] + directions[k][2]>>
             hit == /\ new[1] >= 0 /\ new[1] < n /\ new[2] >= 0 /\ new[2] < n
                    /\ new \notin st.visited
                    /\ map[new] = LAND
         IN  BfsNeighbours(n, map, current, k + 1,
                IF hit
                THEN [queue |-> Append(st.queue, new),
                      visited |-> st.visited \cup {new},
                      visitedLandCount |-> st.visitedLandCount + 1]
                ELSE st)

RECURSIVE BfsLoop(_, _, _)
BfsLoop(n, map, st) ==
    IF st.queue = <<>>
    THEN st
    ELSE BfsLoop(n, map,
            BfsNeighbours(n, map, Head(st.queue), 1,
                          [st EXCEPT !.queue = Tail(st.queue)]))

_isConnectedAlwaysTrue(n, map) == TRUE

_isConnected(n, map) ==
    LET lands == {i \in 1 .. n * n : map[CellAt(n, i)] = LAND}
    IN  IF lands = {}
        THEN TRUE
        ELSE LET start == CellAt(n, CHOOSE i \in lands : \A j \in lands : i <= j)
                 st == BfsLoop(n, map, [queue |-> <<start>>,
                                        visited |-> {start},
                                        visitedLandCount |-> 1])
                 totalLandCount == Cardinality({c \in Cells(n) : map[c] = LAND})
             IN  st.visitedLandCount = totalLandCount

_createDefaultMapNoFloor(n) ==
    [c \in Cells(n) |->
        IF 10000 * Dist2ToCenter(n, c) <= Sq(n * 35) THEN LAND ELSE WATER]

\* radius = Math.floor(gridSize * 0.35); land iff distance <= radius.  The
\* floating-point product floors to (n * 35) \div 100 for every gridSize
\* below 180.
_createDefaultMap(n) ==
    [c \in Cells(n) |->
        IF Dist2ToCenter(n, c) <= Sq((n * 35) \div 100) THEN LAND ELSE WATER]

\* The draws of one attempt that can change the grid: growth draws of the
\* weighted cells whose probability is below 1, erosion draws of the land
\* cells inside the edge range (a draw on a water cell rewrites water).
GrowthDraws(n) ==
    SUBSET {c \in Cells(n) : WeightPositive(n, c) /\ ~ProbabilityIsOne(n, c)}

ErosionDraws(n, map) ==
    SUBSET {c \in Cells(n) : map[c] = LAND /\ DistanceToEdge(n, c) < EdgeWaterRange}

\* The sorted cell list of _expandFromCenter for the generated size
GenSortedCells == SortedCells(GenSize)

\* generateMap is called
GenCall ==
    /\ genPc \in {"idle", "returned"}
    /\ genPc' = "loop"
    /\ attempts' = 0
    /\ genMap' = <<>>
    /\ genResult' = <<>>
    /\ UNCHANGED <<placeVars, gridSize, maxRetries, terrVars, invVars, gameVars>>

\* One iteration of  while (attempts < maxRetries).  The grids are bound by
\* \E over singleton sets so that each is computed once.
GenAttempt ==
    /\ genPc = "loop"
    /\ attempts < maxRetries
    /\ \E heads \in GrowthDraws(GenSize) :
       \E grown \in {_expandFromCenter(GenSize, GenSortedCells,
                                       _createBaseMap(GenSize), heads)} :
       \E tails \in ErosionDraws(GenSize, grown) :
       \E eroded \in {_addEdgeWater(GenSize, grown, tails)} :
       \E connected \in {_isConnected(GenSize, eroded)} :
         /\ attempts' = attempts + 1
         /\ genMap' = IF connected THEN <<eroded>> ELSE <<>>
         /\ genPc' = IF connected THEN "after" ELSE "loop"
    /\ UNCHANGED <<placeVars, gridSize, maxRetries, genResult, terrVars, invVars, gameVars>>

\* The loop condition fails
GenLoopExit ==
    /\ genPc = "loop"
    /\ ~(attempts < maxRetries)
    /\ genPc' = "after"
    /\ UNCHANGED <<placeVars, gridSize, maxRetries, attempts, genMap, genResult, terrVars, invVars, gameVars>>

_fallbackNever(n, map) == map

\* if (!terrainMap) terrainMap = this._createDefaultMap()
_orDefaultMap(n, map) ==
    IF map = <<>> THEN <<_createDefaultMap(n)>> ELSE map

\* The code after the loop, to the return
GenReturn ==
    /\ genPc = "after"
    /\ genResult' = _orDefaultMap(gridSize, genMap)
    /\ genPc' = "returned"
    /\ UNCHANGED <<placeVars, gridSize, maxRetries, attempts, genMap, terrVars, invVars, gameVars>>

----------------------------------------------------------------------------
(* TerrainComponent *)

_isValidCoordinate(n, gridX, gridY) ==
    gridX >= 0 /\ gridX < n /\ gridY >= 0 /\ gridY < n

getTerrainAtUnchecked(n, map, gridX, gridY) ==
    IF ~_isValidCoordinate(n, gridX, gridY) THEN LAND ELSE map[<<gridX, gridY>>]

getTerrainAt(n, map, gridX, gridY) ==
    IF ~_isValidCoordinate(n, gridX, gridY) THEN WATER ELSE map[<<gridX, gridY>>]

isWalkable(n, map, gridX, gridY) ==
    isTerrainWalkable(getTerrainAt(n, map, gridX, gridY))

canMoveToDiagonal(n, map, fromGridX, fromGridY, toGridX, toGridY) ==
    /\ _isValidCoordinate(n, toGridX, toGridY)
    /\ isWalkable(n, map, toGridX, toGridY)
    /\ Abs(toGridX - fromGridX) <= 1
    /\ Abs(toGridY - fromGridY) <= 1
    /\ <<fromGridX, fromGridY>> # <<toGridX, toGridY>>

canMoveTo(n, map, fromGridX, fromGridY, toGridX, toGridY) ==
    IF ~_isValidCoordinate(n, toGridX, toGridY)
    THEN FALSE
    ELSE IF ~isWalkable(n, map, toGridX, toGridY)
    THEN FALSE
    ELSE LET deltaX == Abs(toGridX - fromGridX)
             deltaY == Abs(toGridY - fromGridY)
         IN  (deltaX = 1 /\ deltaY = 0) \/ (deltaX = 0 /\ deltaY = 1)

\* const config = getTerrainConfig(terrainType); if (!config) return;
setTerrainAt(n, map, gridX, gridY, terrainType) ==
    IF ~_isValidCoordinate(n, gridX, gridY)
    THEN map
    ELSE IF getTerrainConfig(terrainType) = <<>>
    THEN map
    ELSE [map EXCEPT ![<<gridX, gridY>>] = terrainType]

\* input: <<>> (null) or <<rows>>, rows[x + 1][y + 1] the value of cell (x, y)
setTerrainMap(n, map, input) ==
    IF input = <<>> \/ Len(input[1]) # n
    THEN map
    ELSE IF \E x \in 1 .. n : Len(input[1][x]) # n
    THEN map
    ELSE [c \in Cells(n) |-> input[1][c[1] + 1][c[2] + 1]]

\* Coordinates handed to the component: the grid and one step outside it
Coord(n) == -1 .. n

\* setTerrainAt arguments: the defined kinds anywhere, an undefined kind (2)
\* on one cell of the grid and on one coordinate outside it
SetTerrainAtInputs(n) ==
    (Coord(n) \X Coord(n) \X {WATER, LAND}) \cup {<<0, 0, 2>>, <<-1, 0, 2>>}

\* setTerrainMap arguments: every well-formed grid of defined kinds, null,
\* a grid with a missing column and a grid with a short column
SetTerrainMapInputs(n) ==
    {<<rows>> : rows \in [1 .. n -> [1 .. n -> {WATER, LAND}]]}
    \cup {<<>>,
          <<[x \in 1 .. n - 1 |-> [y \in 1 .. n |-> LAND]]>>,
          <<[x \in 1 .. n |-> [y \in 1 .. (IF x = n THEN n - 1 ELSE n) |-> LAND]]>>}

SetTerrainAtCall ==
    /\ ret.op = "none"
    /\ \E a \in SetTerrainAtInputs(TerrSize) :
         /\ terrainMap' = setTerrainAt(TerrSize, terrainMap, a[1], a[2], a[3])
         /\ ret' = [op |-> "setTerrainAt", x |-> a[1], y |-> a[2],
                    terrainType |-> a[3]]
    /\ UNCHANGED <<placeVars, genVars, invVars, gameVars>>

SetTerrainMapCall ==
    /\ ret.op = "none"
    /\ \E input \in SetTerrainMapInputs(TerrSize) :
         /\ terrainMap' = setTerrainMap(TerrSize, terrainMap, input)
         /\ ret' = [op |-> "setTerrainMap"]
    /\ UNCHANGED <<placeVars, genVars, invVars, gameVars>>

GetTerrainAtCall ==
    /\ ret.op = "none"
    /\ \E x \in Coord(TerrSize), y \in Coord(TerrSize) :
         ret' = [op |-> "getTerrainAt", x |-> x, y |-> y,
                 val |-> getTerrainAt(TerrSize, terrainMap, x, y)]
    /\ UNCHANGED <<placeVars, genVars, terrainMap, invVars, gameVars>>

IsWalkableCall ==
    /\ ret.op = "none"
    /\ \E x \in Coord(TerrSize), y \in Coord(TerrSize) :
         ret' = [op |-> "isWalkable", x |-> x, y |-> y,
                 val |-> isWalkable(TerrSize, terrainMap, x, y)]
    /\ UNCHANGED <<placeVars, genVars, terrainMap, invVars, gameVars>>

CanMoveToCall ==
    /\ ret.op = "none"
    /\ \E fx \in Coord(TerrSize), fy \in Coord(TerrSize),
          tx \in Coord(TerrSize), ty \in Coord(TerrSize) :
         ret' = [op |-> "canMoveTo", fx |-> fx, fy |-> fy, x |-> tx, y |-> ty,
                 val |-> canMoveTo(TerrSize, terrainMap, fx, fy, tx, ty)]
    /\ UNCHANGED <<placeVars, genVars, terrainMap, invVars, gameVars>>

\* The caller has read the result
CallDone ==
    /\ ret.op # "none"
    /\ ret' = [op |-> "none"]
    /\ UNCHANGED <<placeVars, genVars, terrainMap, invVars, gameVars>>

TerrInit ==
    /\ gridSize = GenSize
    /\ maxRetries = MaxRetries
    /\ GenIdle
    /\ PlaceIdle
    /\ terrainMap = [c \in Cells(TerrSize) |-> LAND]
    /\ ret = [op |-> "none"]
    /\ capacity = -1
    /\ InvIdle
    /\ GameIdle

TerrNext ==
    \/ SetTerrainAtCall
    \/ SetTerrainMapCall
    \/ GetTerrainAtCall
    \/ IsWalkableCall
    \/ CanMoveToCall
    \/ CallDone

SpecTerrain == TerrInit /\ [][TerrNext]_vars

----------------------------------------------------------------------------
(* InventoryComponent.  A record of this.items is [type, count]; the timestamp
   field (Date.now()) is written once and read by nothing modelled here. *)

Kinds == {"seed", "coin", "terrain"}

\* this.items.findIndex(item => item.type === type): 0 when absent
FindIndex(its, type) ==
    IF \E i \in 1 .. Len(its) : its[i].type = type
    THEN CHOOSE i \in 1 .. Len(its) :
            /\ its[i].type = type
            /\ \A j \in 1 .. i - 1 : its[j].type # type
    ELSE 0

addItemPrepend(its, cap, type, count) ==
    IF count <= 0
    THEN [items |-> its, ok |-> FALSE]
    ELSE IF FindIndex(its, type) # 0
    THEN [items |-> [its EXCEPT ![FindIndex(its, type)].count = @ + count],
          ok |-> TRUE]
    ELSE IF cap > 0 /\ Len(its) >= cap
    THEN [items |-> its, ok |-> FALSE]
    ELSE [items |-> <<[type |-> type, count |-> count]>> \o its, ok |-> TRUE]

addItemSetCount(its, cap, type, count) ==
    IF count <= 0
    THEN [items |-> its, ok |-> FALSE]
    ELSE IF FindIndex(its, type) # 0
    THEN [items |-> [its EXCEPT ![FindIndex(its, type)].count = count],
          ok |-> TRUE]
    ELSE IF cap > 0 /\ Len(its) >= cap
    THEN [items |-> its, ok |-> FALSE]
    ELSE [items |-> Append(its, [type |-> type, count |-> count]), ok |-> TRUE]

addItemCapacityFirst(its, cap, type, count) ==
    IF count <= 0
    THEN [items |-> its, ok |-> FALSE]
    ELSE IF cap > 0 /\ Len(its) >= cap
    THEN [items |-> its, ok |-> FALSE]
    ELSE IF FindIndex(its, type) # 0
    THEN [items |-> [its EXCEPT ![FindIndex(its, type)].count = @ + count],
          ok |-> TRUE]
    ELSE [items |-> Append(its, [type |-> type, count |-> count]), ok |-> TRUE]

\* addItem(type, count): the new this.items and the value returned
addItem(its, cap, type, count) ==
    IF count <= 0
    THEN [items |-> its, ok |-> FALSE]
    ELSE IF FindIndex(its, type) # 0
    THEN [items |-> [its EXCEPT ![FindIndex(its, type)].count = @ + count],
          ok |-> TRUE]
    ELSE IF cap > 0 /\ Len(its) >= cap
    THEN [items |-> its, ok |-> FALSE]
    ELSE [items |-> Append(its, [type |-> type, count |-> count]), ok |-> TRUE]

\* this.items.splice(itemIndex, 1)
Splice1(its, itemIndex) ==
    [i \in 1 .. Len(its) - 1 |-> IF i < itemIndex THEN its[i] ELSE its[i + 1]]

removeItemKeepZero(its, type, count) ==
    IF count <= 0
    THEN [items |-> its, ok |-> FALSE]
    ELSE LET itemIndex == FindIndex(its, type)
         IN  IF itemIndex = 0
             THEN [items |-> its, ok |-> FALSE]
             ELSE IF its[itemIndex].count < count
             THEN [items |-> its, ok |-> FALSE]
             ELSE [items |-> [its EXCEPT ![itemIndex].count = @ - count],
                   ok |-> TRUE]

\* removeItem(type, count): the new this.items and the value returned
removeItem(its, type, count) ==
    IF count <= 0
    THEN [items |-> its, ok |-> FALSE]
    ELSE LET itemIndex == FindIndex(its, type)
         IN  IF itemIndex = 0
             THEN [items |-> its, ok |-> FALSE]
             ELSE IF its[itemIndex].count < count
             THEN [items |-> its, ok |-> FALSE]
             ELSE IF its[itemIndex].count - count = 0
             THEN [items |-> Splice1(its, itemIndex), ok |-> TRUE]
             ELSE [items |-> [its EXCEPT ![itemIndex].count = @ - count],
                   ok |-> TRUE]

\* getInventoryData(): this.items.map(...), the display name and icon left out
getInventoryData(its) ==
    [i \in 1 .. Len(its) |->
        [type |-> its[i].type, count |-> its[i].count, empty |-> FALSE]]

\* Counts handed to addItem and removeItem
CountInputs == 0 .. 2

AddItemCall ==
    /\ ret.op = "none"
    /\ \E type \in Kinds, count \in CountInputs :
         LET r == addItem(items, capacity, type, count)
         IN  /\ \A i \in 1 .. Len(r.items) : r.items[i].count <= MaxCount
             /\ items' = r.items
             /\ dirty' = IF r.ok THEN TRUE ELSE dirty
             /\ ret' = [op |-> "addItem", type |-> type, count |-> count,
                        val |-> r.ok]
    /\ UNCHANGED <<placeVars, genVars, terrainMap, capacity, gameVars>>

RemoveItemCall ==
    /\ ret.op = "none"
    /\ \E type \in Kinds, count \in CountInputs :
         LET r == removeItem(items, type, count)
         IN  /\ items' = r.items
             /\ dirty' = IF r.ok THEN TRUE ELSE dirty
             /\ ret' = [op |-> "removeItem", type |-> type, count |-> count,
                        val |-> r.ok]
    /\ UNCHANGED <<placeVars, genVars, terrainMap, capacity, gameVars>>

ClearCall ==
    /\ ret.op = "none"
    /\ items' = <<>>
    /\ dirty' = TRUE
    /\ ret' = [op |-> "clear"]
    /\ UNCHANGED <<placeVars, genVars, terrainMap, capacity, gameVars>>

GetInventoryDataCall ==
    /\ ret.op = "none"
    /\ ret' = [op |-> "getInventoryData", val |-> getInventoryData(items)]
    /\ UNCHANGED <<placeVars, genVars, terrainMap, invVars, gameVars>>

ClearDirtyCall ==
    /\ ret.op = "none"
    /\ dirty' = FALSE
    /\ ret' = [op |-> "clearDirty"]
    /\ UNCHANGED <<placeVars, genVars, terrainMap, items, capacity, gameVars>>

\* capacity is a public field: -1 from the constructor, or a limit on the
\* number of kinds assigned by the host before the ledger is used
Capacities == {-1, 1, 2}

InvInit ==
    /\ gridSize = GenSize
    /\ maxRetries = MaxRetries
    /\ GenIdle
    /\ PlaceIdle
    /\ terrainMap = [c \in Cells(TerrSize) |-> LAND]
    /\ ret = [op |-> "none"]
    /\ capacity \in Capacities
    /\ InvIdle
    /\ GameIdle

InvNext ==
    \/ AddItemCall
    \/ RemoveItemCall
    \/ ClearCall
    \/ GetInventoryDataCall
    \/ ClearDirtyCall
    \/ CallDone

SpecInv == InvInit /\ [][InvNext]_vars

----------------------------------------------------------------------------
(* The running game: components.  Positions are pixel pairs on the integer
   lattice, directions are unit vectors <<dx, dy>>. *)

CellSize == 2 * HalfCell

Dist2(a, b) == Sq(a[1] - b[1]) + Sq(a[2] - b[2])

\* gridX * cellSize + cellSize / 2, gridY * cellSize + cellSize / 2
CellCentre(c) == <<c[1] * CellSize + HalfCell, c[2] * CellSize + HalfCell>>

\* Math.max(0, Math.min(this.gridSize - 1, v))
ClampGrid(v) == Max2(0, Min2(GameSize - 1, v))

\* MovementComponent.setVelocity: the speed is recomputed as the length of
\* the vector, which for direction * speed is the speed again
setVelocity(p, v) == [p EXCEPT !.velocity = v]

\* MovementComponent.setTarget
setTarget(p, t) == [p EXCEPT !.target = t, !.moving = TRUE]

clearTargetKeepMoving(p) == [p EXCEPT !.target = <<>>]

\* MovementComponent.clearTarget
clearTarget(p) == [p EXCEPT !.target = <<>>, !.moving = FALSE]

stopKeepVelocity(p) == [p EXCEPT !.moving = FALSE]

\* MovementComponent.stop
stop(p) == [p EXCEPT !.velocity = <<0, 0>>, !.moving = FALSE]

\* ItemComponent.canBeCollected
canBeCollected(it) == ~it.collected /\ it.collectable

collectAgain(it) ==
    IF it.collectable
    THEN [item |-> [it EXCEPT !.collected = TRUE], ok |-> TRUE]
    ELSE [item |-> it, ok |-> FALSE]

\* ItemComponent.collect: the item afterwards and the value returned
collect(it) ==
    IF canBeCollected(it)
    THEN [item |-> [it EXCEPT !.collected = TRUE], ok |-> TRUE]
    ELSE [item |-> it, ok |-> FALSE]

----------------------------------------------------------------------------
(* MovementSystem.  moveDistance = movement.speed * deltaSeconds is the
   input of a frame. *)

\* A partial move keeps the position on the lattice: along an axis any
\* whole distance does, off the axes only a frame of no duration
StaysOnLattice(p, moveDistance) ==
    IF p.target = <<>> \/ moveDistance = 0
    THEN TRUE
    ELSE IF p.target[1] = p.position[1] \/ p.target[2] = p.position[2]
    THEN TRUE
    ELSE Sq(moveDistance) >= Dist2(p.target, p.position)

_moveToTargetKeepTarget(p, moveDistance) ==
    LET dx == p.target[1] - p.position[1]
        dy == p.target[2] - p.position[2]
        distance2 == dx * dx + dy * dy
        along == Abs(dx) + Abs(dy)
    IN  IF distance2 < 1
        THEN [p EXCEPT !.position = p.target]
        ELSE IF Sq(moveDistance) >= distance2
        THEN [p EXCEPT !.position = p.target]
        ELSE [p EXCEPT !.position = <<p.position[1] + (dx * moveDistance) \div along,
                                       p.position[2] + (dy * moveDistance) \div along>>]

\* MovementSystem._moveToTarget: arrival below 1 px or within this frame's
\* moveDistance, else a proportional step
_moveToTarget(p, moveDistance) ==
    LET dx == p.target[1] - p.position[1]
        dy == p.target[2] - p.position[2]
        distance2 == dx * dx + dy * dy
        \* dx * ratio and dy * ratio, exact where StaysOnLattice holds
        along == Abs(dx) + Abs(dy)
    IN  IF distance2 < 1
        THEN clearTarget([p EXCEPT !.position = p.target])
        ELSE IF Sq(moveDistance) >= distance2
        THEN clearTarget([p EXCEPT !.position = p.target])
        ELSE [p EXCEPT !.position = <<p.position[1] + (dx * moveDistance) \div along,
                                       p.position[2] + (dy * moveDistance) \div along>>]

\* The body of the loop of MovementSystem.update for the player
MovementSystem_update(p, moveDistance) ==
    IF p.target # <<>>
    THEN _moveToTarget(p, moveDistance)
    ELSE IF p.velocity # <<0, 0>>
    THEN [p EXCEPT !.position =
            <<p.position[1] + (p.velocity[1] \div PlayerSpeed) * moveDistance,
              p.position[2] + (p.velocity[2] \div PlayerSpeed) * moveDistance>>]
    ELSE p

----------------------------------------------------------------------------
(* GridSystem *)

\* this.terrainComponent of GridSystem: the lookup goes through
\* entities[0]?.world, a field no Entity has, so the cache stays null
GridSystem_terrainComponent == <<>>

GridSystem_updateNoSnap(p, terrainComponent) ==
    IF p.moving /\ p.target # <<>>
    THEN IF Dist2(p.target, p.position) < 9
         THEN stop(clearTarget(
                [p EXCEPT !.grid = <<ClampGrid(p.target[1] \div CellSize),
                                     ClampGrid(p.target[2] \div CellSize)>>]))
         ELSE p
    ELSE p

\* The body of the loop of GridSystem.update for the player;
\* terrainComponent is <<>> (null) or <<grid>>
GridSystem_update(p, terrainComponent) ==
    IF p.moving /\ p.target # <<>>
    THEN IF Dist2(p.target, p.position) < 9
         THEN LET q == [p EXCEPT !.grid = <<ClampGrid(p.target[1] \div CellSize),
                                            ClampGrid(p.target[2] \div CellSize)>>]
              IN  IF /\ terrainComponent # <<>>
                     /\ ~isWalkable(GameSize, terrainComponent[1], q.grid[1], q.grid[2])
                  THEN stop(clearTarget(q))
                  ELSE stop(clearTarget([q EXCEPT !.position = p.target]))
         ELSE p
    ELSE p

----------------------------------------------------------------------------
(* CollectionSystem.  st holds what a step works on: the item entities, the
   ledger records and the ledger's dirty flag. *)

_isPlayerAtItemLocationX(playerGrid, it) ==
    playerGrid[1] = it.gridX

_isPlayerAtItemLocation(playerGrid, it) ==
    playerGrid[1] = it.gridX /\ playerGrid[2] = it.gridY

_collectItemNoRollback(st, i, cap) ==
    LET c == collect(st.ents[i])
        a == addItem(st.items, cap, c.item.type, 1)
    IN  IF ~c.ok
        THEN st
        ELSE IF ~a.ok
        THEN [st EXCEPT !.ents[i] = c.item]
        ELSE [ents |-> [st.ents EXCEPT ![i] = [c.item EXCEPT !.alpha = 0]],
              items |-> a.items,
              dirty |-> TRUE]

\* _collectItem for the i-th item entity; _playCollectEffect sets alpha to 0
_collectItem(st, i, cap) ==
    LET c == collect(st.ents[i])
        a == addItem(st.items, cap, c.item.type, 1)
    IN  IF ~c.ok
        THEN st
        ELSE IF ~a.ok
        THEN [st EXCEPT !.ents[i] = [c.item EXCEPT !.collected = FALSE]]
        ELSE [ents |-> [st.ents EXCEPT ![i] = [c.item EXCEPT !.alpha = 0]],
              items |-> a.items,
              dirty |-> TRUE]

\* The loop of _checkCollisions from the i-th item entity on
RECURSIVE _checkCollisions(_, _, _, _)
_checkCollisions(playerGrid, st, cap, i) ==
    IF i > Len(st.ents)
    THEN st
    ELSE IF st.ents[i].collected
    THEN _checkCollisions(playerGrid, st, cap, i + 1)
    ELSE IF ~canBeCollected(st.ents[i])
    THEN _checkCollisions(playerGrid, st, cap, i + 1)
    ELSE IF _isPlayerAtItemLocation(playerGrid, st.ents[i])
    THEN _checkCollisions(playerGrid, _collectItem(st, i, cap), cap, i + 1)
    ELSE _checkCollisions(playerGrid, st, cap, i + 1)

\* CollectionSystem.update: the player entity exists; nothing to do without
\* item entities
CollectionSystem_update(playerGrid, st, cap) ==
    IF Len(st.ents) = 0 THEN st ELSE _checkCollisions(playerGrid, st, cap, 1)

----------------------------------------------------------------------------
(* DragSystem.  The direction display game.currentDirection reads "none",
   "right", "down", "up", "left" or "blocked". *)

\* UIManager.isInUIArea
isInUIArea(x, y) == y >= UiAreaY

\* UIManager.handleClick: the back button, then the two tabs; the item slots
\* answer only while the items tab is shown and are handled like a tab
handleClick(x, y) ==
    IF x >= 20 /\ x <= 20 + 120 /\ y >= UiAreaY + 20 /\ y <= UiAreaY + 20 + 45
    THEN "back"
    ELSE IF \E i \in 0 .. 1 :
              /\ x >= 20 + i * (120 + 10) /\ x <= 20 + i * (120 + 10) + 120
              /\ y >= UiAreaY + 75 /\ y <= UiAreaY + 75 + 45
    THEN "tab"
    ELSE "null"

_updateGridPositionNoClamp(position) ==
    <<position[1] \div CellSize, position[2] \div CellSize>>

_updateGridPositionRounded(position) ==
    <<ClampGrid((position[1] + HalfCell) \div CellSize),
      ClampGrid((position[2] + HalfCell) \div CellSize)>>

\* Math.floor(position / cellSize), clamped into the grid
_updateGridPosition(position) ==
    <<ClampGrid(position[1] \div CellSize), ClampGrid(position[2] \div CellSize)>>

_isAtGridCenterWide(position, grid) == Dist2(position, CellCentre(grid)) < 25

\* distance < 3
_isAtGridCenter(position, grid) == Dist2(position, CellCentre(grid)) < 9

DragDirectionClosedRight(offsetX, offsetY) ==
    IF offsetX > 0 /\ offsetY >= 0 - offsetX /\ offsetY <= offsetX
    THEN <<1, 0>>
    ELSE IF offsetY > 0 /\ offsetX <= offsetY /\ offsetX > 0 - offsetY
    THEN <<0, 1>>
    ELSE IF offsetY < 0 /\ offsetX >= offsetY /\ offsetX < 0 - offsetY
    THEN <<0, -1>>
    ELSE <<-1, 0>>

\* The sector of Math.atan2(offsetY, offsetX): [-45, 45) degrees is right,
\* [45, 135) down, [-135, -45) up, the rest left
DragDirection(offsetX, offsetY) ==
    IF offsetX > 0 /\ offsetY >= 0 - offsetX /\ offsetY < offsetX
    THEN <<1, 0>>
    ELSE IF offsetY > 0 /\ offsetX <= offsetY /\ offsetX > 0 - offsetY
    THEN <<0, 1>>
    ELSE IF offsetY < 0 /\ offsetX >= offsetY /\ offsetX < 0 - offsetY
    THEN <<0, -1>>
    ELSE <<-1, 0>>

DirectionName(direction) ==
    CASE direction = <<1, 0>> -> "right"
      [] direction = <<0, 1>> -> "down"
      [] direction = <<0, -1>> -> "up"
      [] OTHER -> "left"

\* inputManager.onTouchStart as bound by DragSystem
onTouchStart(d, x, y) ==
    IF isInUIArea(x, y)
    THEN [d EXCEPT !.dragging = FALSE]
    ELSE [d EXCEPT !.dragStart = <<x, y>>, !.dragging = TRUE]

\* inputManager.onTouchMove as bound by DragSystem: the DragSystem fields
\* and the direction display afterwards
onTouchMove(d, display, x, y) ==
    LET offsetX == x - d.dragStart[1]
        offsetY == y - d.dragStart[2]
    IN  IF ~d.dragging
        THEN [drag |-> d, display |-> display]
        ELSE IF Sq(offsetX) + Sq(offsetY) < 100
        THEN [drag |-> d, display |-> display]
        ELSE [drag |-> [d EXCEPT !.nextDirection = DragDirection(offsetX, offsetY)],
              display |-> DirectionName(DragDirection(offsetX, offsetY))]

\* inputManager.onTouchEnd as bound by DragSystem
onTouchEnd(d) ==
    [drag |-> [d EXCEPT !.dragging = FALSE, !.nextDirection = <<>>,
                        !.currentDirection = <<>>],
     display |-> "none"]

DragSystem_blockedSilent(q, d, display) ==
    [player |-> q, drag |-> d, display |-> display]

\* The branch of DragSystem.update taken when canMoveTo refuses the move
DragSystem_blocked(q, d, display) ==
    [player |-> stop(clearTarget(q)),
     drag |-> [d EXCEPT !.currentDirection = <<>>],
     display |-> "blocked"]

DragSystem_directionChangedAlways(d) == TRUE

\* directionChanged: no committed direction, or another than the candidate
DragSystem_directionChanged(d) == d.currentDirection # d.nextDirection

\* The body of the loop of DragSystem.update for the player (canMove is
\* never cleared); terrainComponent is <<>> (null) or <<grid>>
DragSystem_update(p, d, display, terrainComponent) ==
    IF d.nextDirection = <<>>
    THEN IF p.moving /\ p.target # <<>>
         THEN [player |-> p, drag |-> d, display |-> display]
         ELSE [player |-> stop(clearTarget(
                             [p EXCEPT !.grid = _updateGridPosition(p.position)])),
               drag |-> d, display |-> display]
    ELSE IF _isAtGridCenter(p.position, p.grid) \/ ~p.moving
    THEN LET q == [p EXCEPT !.grid = _updateGridPosition(p.position)]
             clamped == <<ClampGrid(q.grid[1] + d.nextDirection[1]),
                          ClampGrid(q.grid[2] + d.nextDirection[2])>>
             directionChanged == DragSystem_directionChanged(d)
         IN  IF clamped = q.grid
             THEN [player |-> stop(clearTarget(q)),
                   drag |-> [d EXCEPT !.currentDirection = <<>>],
                   display |-> display]
             ELSE IF /\ terrainComponent # <<>>
                     /\ ~canMoveTo(GameSize, terrainComponent[1],
                                   q.grid[1], q.grid[2], clamped[1], clamped[2])
             THEN DragSystem_blocked(q, d, display)
             ELSE IF directionChanged
             THEN [player |-> setTarget(
                                 setVelocity(q, <<d.nextDirection[1] * PlayerSpeed,
                                                  d.nextDirection[2] * PlayerSpeed>>),
                                 CellCentre(clamped)),
                   drag |-> [d EXCEPT !.currentDirection = d.nextDirection],
                   display |-> display]
             ELSE [player |-> setTarget(q, CellCentre(clamped)),
                   drag |-> d, display |-> display]
    ELSE [player |-> p, drag |-> d, display |-> display]

----------------------------------------------------------------------------
(* The running game: one frame is World.update, which runs MovementSystem,
   GridSystem, CollectionSystem and DragSystem in their order of
   registration (TerrainSystem, AnimationSystem and RenderSystem only draw);
   touch events arrive between two frames. *)

\* moveDistance of a frame: a frame of no duration, a short and a longer
\* frame, and one long enough to arrive from anywhere
MoveDistances == {0, 2, HalfCell, CellSize + 2}

DragSystem_terrainComponentNull == <<>>

\* this.terrainComponent of DragSystem: cached from game.world at the top of
\* the first update, before the loop over the entities
DragSystem_terrainComponent == <<terrainMap>>

systemsDragFirst == <<"drag", "movement", "grid", "collection">>

\* world.systems, in the order GridMoveGame.init registers them, the systems
\* that only draw left out; World.update runs them in this order
systems == <<"movement", "grid", "collection", "drag">>

SystemIndex(s) == CHOOSE i \in 1 .. Len(systems) : systems[i] = s

\* pc while system s is the next to run: the first system of the list runs
\* from the frame boundary
Before(s) == IF SystemIndex(s) = 1 THEN "idle" ELSE s

\* pc once system s has run: the next system of the list, or the frame
\* boundary after the last
After(s) ==
    IF SystemIndex(s) = Len(systems) THEN "idle" ELSE systems[SystemIndex(s) + 1]

MovementStep ==
    /\ pc = Before("movement")
    /\ \E moveDistance \in MoveDistances :
         /\ StaysOnLattice(player, moveDistance)
         /\ player' = MovementSystem_update(player, moveDistance)
    /\ pc' = After("movement")
    /\ UNCHANGED <<placeVars, genVars, terrVars, invVars, drag, inputManager,
                   gameCurrentDirection, itemEnts>>

GridStep ==
    /\ pc = Before("grid")
    /\ player' = GridSystem_update(player, GridSystem_terrainComponent)
    /\ pc' = After("grid")
    /\ UNCHANGED <<placeVars, genVars, terrVars, invVars, drag, inputManager,
                   gameCurrentDirection, itemEnts>>

CollectionStep ==
    /\ pc = Before("collection")
    /\ \E st \in {CollectionSystem_update(player.grid,
                     [ents |-> itemEnts, items |-> items, dirty |-> dirty],
                     capacity)} :
         /\ itemEnts' = st.ents
         /\ items' = st.items
         /\ dirty' = st.dirty
    /\ pc' = After("collection")
    /\ UNCHANGED <<placeVars, genVars, terrVars, capacity, player, drag, inputManager,
                   gameCurrentDirection>>

DragStep ==
    /\ pc = Before("drag")
    /\ \E r \in {DragSystem_update(player, drag, gameCurrentDirection,
                                   DragSystem_terrainComponent)} :
         /\ player' = r.player
         /\ drag' = r.drag
         /\ gameCurrentDirection' = r.display
    /\ pc' = After("drag")
    /\ UNCHANGED <<placeVars, genVars, terrVars, invVars, inputManager, itemEnts>>

\* Where the finger goes down: in the game area, on the back button
StartPoints == {<<200, 50>>, <<30, UiAreaY + 30>>}

\* Where the finger is dragged to: right, below, above, left of the first
\* start point, 5 px beside it, and onto the first tab
MovePoints ==
    {<<220, 50>>, <<200, 70>>, <<200, 30>>, <<180, 50>>, <<205, 50>>,
     <<30, UiAreaY + 80>>}

\* wx.onTouchStart
TouchStart ==
    /\ pc = "idle"
    /\ ~inputManager.touching
    /\ \E pt \in StartPoints :
         /\ inputManager' = [touching |-> TRUE, touch |-> pt]
         /\ drag' = onTouchStart(drag, pt[1], pt[2])
    /\ UNCHANGED <<placeVars, genVars, terrVars, invVars, pc, player,
                   gameCurrentDirection, itemEnts>>

\* wx.onTouchMove
TouchMove ==
    /\ pc = "idle"
    /\ inputManager.touching
    /\ \E pt \in MovePoints :
         /\ inputManager' = [inputManager EXCEPT !.touch = pt]
         /\ \E r \in {onTouchMove(drag, gameCurrentDirection, pt[1], pt[2])} :
              /\ drag' = r.drag
              /\ gameCurrentDirection' = r.display
    /\ UNCHANGED <<placeVars, genVars, terrVars, invVars, pc, player, itemEnts>>

\* wx.onTouchEnd and wx.onTouchCancel, through the callback installed by
\* _setupUIListener: a hit on the back button leaves the game, a hit on
\* another widget ends there, anything else reaches DragSystem's callback
TouchEnd ==
    /\ pc = "idle"
    /\ inputManager.touching
    /\ inputManager' = [inputManager EXCEPT !.touching = FALSE]
    /\ \E uiResult \in {handleClick(inputManager.touch[1], inputManager.touch[2])} :
         /\ pc' = IF uiResult = "back" THEN "left" ELSE pc
         /\ drag' = IF uiResult = "null" THEN onTouchEnd(drag).drag ELSE drag
         /\ gameCurrentDirection' =
               IF uiResult = "null" THEN onTouchEnd(drag).display
               ELSE gameCurrentDirection
    /\ UNCHANGED <<placeVars, genVars, terrVars, invVars, player, itemEnts>>

\* The host spends one of a kind: inventory.removeItem(type, 1)
HostRemoveItem ==
    /\ pc = "idle"
    /\ \E type \in Kinds :
       \E r \in {removeItem(items, type, 1)} :
         /\ r.ok
         /\ items' = r.items
         /\ dirty' = TRUE
    /\ UNCHANGED <<placeVars, genVars, terrVars, capacity, gameVars>>

\* Pixel positions handed to PositionComponent.setPosition: left of, right
\* of and below the grid, on the line through the centres of a row or column
PixelInputs ==
    {<<0 - 3, HalfCell>>, <<GameSize * CellSize + 1, HalfCell>>,
     <<HalfCell, GameSize * CellSize + 1>>}

\* PositionComponent.setPosition
setPosition(p, x, y) == [p EXCEPT !.position = <<x, y>>]

\* The host places the player: position.setPosition(x, y) between two frames
HostSetPosition ==
    /\ pc = "idle"
    /\ \E pt \in PixelInputs : player' = setPosition(player, pt[1], pt[2])
    /\ UNCHANGED <<placeVars, genVars, terrVars, invVars, pc, drag, inputManager,
                   gameCurrentDirection, itemEnts>>

\* _createPlayer: the centre cell if it is walkable, else the first walkable
\* cell of the search by radius, dx, dy around it (radius < gridSize / 2),
\* else the centre cell
StartCellOf(n, map) ==
    LET centre == n \div 2
        maxR == (n - 1) \div 2
        Cands == {t \in (1 .. maxR) \X (-maxR .. maxR) \X (-maxR .. maxR) :
                    /\ Abs(t[2]) <= t[1] /\ Abs(t[3]) <= t[1]
                    /\ (Abs(t[2]) = t[1] \/ Abs(t[3]) = t[1])
                    /\ _isValidCoordinate(n, centre + t[2], centre + t[3])
                    /\ isWalkable(n, map, centre + t[2], centre + t[3])}
        Key(t) == (t[1] * (2 * maxR + 1) + t[2] + maxR) * (2 * maxR + 1) + t[3] + maxR
        first == CHOOSE t \in Cands : \A u \in Cands : Key(t) <= Key(u)
    IN  IF isWalkable(n, map, centre, centre) \/ Cands = {}
        THEN <<centre, centre>>
        ELSE <<centre + first[2], centre + first[3]>>

StartCell(map) == StartCellOf(GameSize, map)

\* Terrain grids handed to setTerrainMap: all land; land with water on the
\* cell right of the centre and on the cell below the one left of it
AllLandMap == [c \in Cells(GameSize) |-> LAND]

WaterSideMap ==
    [c \in Cells(GameSize) |->
        IF c \in {<<GameSize \div 2 + 1, GameSize \div 2>>,
                  <<GameSize \div 2 - 1, GameSize \div 2 + 1>>}
        THEN WATER
        ELSE LAND]

\* new ItemComponent(type, gridX, gridY, config); config.alpha is unset
\* (1 here) until _playCollectEffect writes 0
ItemComponent(type, gridX, gridY) ==
    [type |-> type, gridX |-> gridX, gridY |-> gridY,
     collectable |-> type \in {"coin", "seed", "terrain"},
     collected |-> FALSE, alpha |-> 1]

\* Item entities of the world, in the order they were added, relative to
\* the start cell: three items on three cells
SpreadItems(start) ==
    <<ItemComponent("coin", start[1] - 1, start[2]),
      ItemComponent("seed", start[1], start[2] - 1),
      ItemComponent("coin", start[1] - 1, start[2] - 1)>>

\* Two items stacked on one cell and a block, which is not collectable
StackedItems(start) ==
    <<ItemComponent("coin", start[1] - 1, start[2]),
      ItemComponent("seed", start[1] - 1, start[2]),
      ItemComponent("block", start[1], start[2] - 1)>>

\* The worlds a game starts in: terrain, item entities and the capacity of
\* the player's ledger (unlimited, or one kind)
Worlds ==
    {[map |-> AllLandMap, ents |-> SpreadItems(StartCell(AllLandMap)), capacity |-> -1],
     [map |-> WaterSideMap, ents |-> StackedItems(StartCell(WaterSideMap)), capacity |-> 1],
     [map |-> WaterSideMap, ents |-> SpreadItems(StartCell(WaterSideMap)), capacity |-> 1]}

\* GridMoveGame.init: terrain, player and items created, no frame run yet
Init ==
    /\ gridSize = GenSize
    /\ maxRetries = MaxRetries
    /\ GenIdle
    /\ PlaceIdle
    /\ ret = [op |-> "none"]
    /\ InvIdle
    /\ \E w \in Worlds :
         /\ terrainMap = w.map
         /\ itemEnts = w.ents
         /\ capacity = w.capacity
    /\ pc = "idle"
    /\ player = [position |-> CellCentre(StartCell(terrainMap)),
                 grid |-> StartCell(terrainMap),
                 target |-> <<>>, moving |-> FALSE, velocity |-> <<0, 0>>]
    /\ drag = [dragging |-> FALSE, dragStart |-> <<0, 0>>,
               nextDirection |-> <<>>, currentDirection |-> <<>>]
    /\ inputManager = [touching |-> FALSE, touch |-> <<0, 0>>]
    /\ gameCurrentDirection = "none"

Next ==
    \/ MovementStep
    \/ GridStep
    \/ CollectionStep
    \/ DragStep
    \/ TouchStart
    \/ TouchMove
    \/ TouchEnd

Spec == Init /\ [][Next]_vars

\* The game with a host that also spends items of the ledger
SpecHost == Init /\ [][Next \/ HostRemoveItem]_vars

\* The game with a host that also places the player anywhere
SpecPlace == Init /\ [][Next \/ HostSetPosition]_vars

\* MovementSystem.update in a frame that long that a move of one cell ends
\* less than 3 px before its target
LongMovementStep ==
    /\ pc = Before("movement")
    /\ \E moveDistance \in {CellSize - 2} :
         /\ StaysOnLattice(player, moveDistance)
         /\ player' = MovementSystem_update(player, moveDistance)
    /\ pc' = After("movement")
    /\ UNCHANGED <<placeVars, genVars, terrVars, invVars, drag, inputManager,
                   gameCurrentDirection, itemEnts>>

\* The game with frames of that duration as well
SpecLong == Init /\ [][Next \/ LongMovementStep]_vars

\* MovementSystem.update in a frame of positive duration
PositiveMovementStep ==
    /\ pc = Before("movement")
    /\ \E moveDistance \in MoveDistances \ {0} :
         /\ StaysOnLattice(player, moveDistance)
         /\ player' = MovementSystem_update(player, moveDistance)
    /\ pc' = After("movement")
    /\ UNCHANGED <<placeVars, genVars, terrVars, invVars, drag, inputManager,
                   gameCurrentDirection, itemEnts>>

\* GridMoveGame.init on either terrain when the item generator placed
\* nothing: terrain and player created, no item entity, no frame run yet
LiveInit ==
    /\ gridSize = GenSize
    /\ maxRetries = MaxRetries
    /\ GenIdle
    /\ PlaceIdle
    /\ ret = [op |-> "none"]
    /\ InvIdle
    /\ terrainMap \in {AllLandMap, WaterSideMap}
    /\ itemEnts = <<>>
    /\ capacity = -1
    /\ pc = "idle"
    /\ player = [position |-> CellCentre(StartCell(terrainMap)),
                 grid |-> StartCell(terrainMap),
                 target |-> <<>>, moving |-> FALSE, velocity |-> <<0, 0>>]
    /\ drag = [dragging |-> FALSE, dragStart |-> <<0, 0>>,
               nextDirection |-> <<>>, currentDirection |-> <<>>]
    /\ inputManager = [touching |-> FALSE, touch |-> <<0, 0>>]
    /\ gameCurrentDirection = "none"

\* The game while the render loop keeps calling World.update: frames of
\* positive duration keep coming, and a frame that has begun runs all its
\* systems
SpecLive ==
    /\ LiveInit
    /\ [][Next]_vars
    /\ SF_vars(PositiveMovementStep)
    /\ WF_vars(GridStep)
    /\ WF_vars(CollectionStep)
    /\ WF_vars(DragStep)

\* entity.world of an item entity: Entity has no such field and nothing
\* assigns one, so it reads undefined (<<>>)
Entity_world == <<>>

\* CollectionSystem.cleanupCollectedItems(entities): the entities of the
\* world afterwards and the value returned, toRemove.length
cleanupCollectedItems(ents) ==
    LET toRemove == SelectSeq(ents, LAMBDA it : it.collected)
    IN  [ents |-> IF Entity_world # <<>>
                  THEN SelectSeq(ents, LAMBDA it : ~it.collected)
                  ELSE ents,
         val |-> Len(toRemove)]

\* The host calls collectionSystem.cleanupCollectedItems(world.entities)
\* between two frames
HostCleanup ==
    /\ pc = "idle"
    /\ ret.op = "none"
    /\ \E r \in {cleanupCollectedItems(itemEnts)} :
         /\ itemEnts' = r.ents
         /\ ret' = [op |-> "cleanupCollectedItems", val |-> r.val]
    /\ UNCHANGED <<placeVars, genVars, terrainMap, invVars, pc, player, drag,
                   inputManager, gameCurrentDirection>>

\* Components of the drag vectors tried: 0, 7 and 10 px either way, so
\* that the vectors lie below, on and above the threshold of 10 px, on the
\* axes, on the diagonals and between them
DragOffsets == {0 - 10, 0 - 7, 0, 7, 10}

\* Where the finger is dragged to around the first start point
DragPoints == {<<200 + dx, 50 + dy>> : dx \in DragOffsets, dy \in DragOffsets}

\* wx.onTouchMove to any of the drag points
DragMove ==
    /\ pc = "idle"
    /\ inputManager.touching
    /\ \E pt \in DragPoints :
         /\ inputManager' = [inputManager EXCEPT !.touch = pt]
         /\ \E r \in {onTouchMove(drag, gameCurrentDirection, pt[1], pt[2])} :
              /\ drag' = r.drag
              /\ gameCurrentDirection' = r.display
    /\ UNCHANGED <<placeVars, genVars, terrVars, invVars, pc, player, itemEnts>>

\* The pointer events alone, no frame in between
SpecDrag == Init /\ [][TouchStart \/ DragMove \/ TouchEnd]_vars

\* Cells the host turns into water while the game runs: the cell left of
\* the centre cell
FloodCells == {<<GameSize \div 2 - 1, GameSize \div 2>>}

\* The host floods a cell between two frames:
\* terrainComponent.setTerrainAt(gridX, gridY, TERRAIN_TYPES.WATER)
HostSetTerrainAt ==
    /\ pc = "idle"
    /\ \E c \in FloodCells :
         terrainMap' = setTerrainAt(GameSize, terrainMap, c[1], c[2], WATER)
    /\ UNCHANGED <<placeVars, genVars, ret, invVars, gameVars>>

\* The game with a host that also floods cells
SpecFlood == Init /\ [][Next \/ HostSetTerrainAt]_vars

\* The game with a host that also cleans up the collected items
SpecCleanup == Init /\ [][Next \/ HostCleanup \/ CallDone]_vars

----------------------------------------------------------------------------
(* MovementComponent driven directly: its operations in any order, and
   MovementSystem.update on the entity that carries it *)

\* Targets handed to setTarget: centres of cells
MoveTargets == {CellCentre(<<0, 0>>), CellCentre(<<1, 0>>), CellCentre(<<1, 1>>)}

\* Vectors handed to setVelocity: a direction times the speed
MoveVelocities ==
    {<<PlayerSpeed, 0>>, <<0, PlayerSpeed>>, <<0 - PlayerSpeed, 0>>, <<0, 0 - PlayerSpeed>>}

\* Pixel positions of the canvas the entity is driven over
OnCanvas(position) ==
    /\ position[1] >= 0 /\ position[1] <= GameSize * CellSize
    /\ position[2] >= 0 /\ position[2] <= GameSize * CellSize

SetTargetCall ==
    /\ \E t \in MoveTargets : player' = setTarget(player, t)
    /\ UNCHANGED <<placeVars, genVars, terrVars, invVars, pc, drag, inputManager,
                   gameCurrentDirection, itemEnts>>

ClearTargetCall ==
    /\ player' = clearTarget(player)
    /\ UNCHANGED <<placeVars, genVars, terrVars, invVars, pc, drag, inputManager,
                   gameCurrentDirection, itemEnts>>

StopCall ==
    /\ player' = stop(player)
    /\ UNCHANGED <<placeVars, genVars, terrVars, invVars, pc, drag, inputManager,
                   gameCurrentDirection, itemEnts>>

SetVelocityCall ==
    /\ \E v \in MoveVelocities : player' = setVelocity(player, v)
    /\ UNCHANGED <<placeVars, genVars, terrVars, invVars, pc, drag, inputManager,
                   gameCurrentDirection, itemEnts>>

\* MovementSystem.update on the entity, one frame
MovementUpdateCall ==
    /\ \E moveDistance \in MoveDistances :
         /\ StaysOnLattice(player, moveDistance)
         /\ OnCanvas(MovementSystem_update(player, moveDistance).position)
         /\ player' = MovementSystem_update(player, moveDistance)
    /\ UNCHANGED <<placeVars, genVars, terrVars, invVars, pc, drag, inputManager,
                   gameCurrentDirection, itemEnts>>

MoveInit ==
    /\ gridSize = GenSize
    /\ maxRetries = MaxRetries
    /\ GenIdle
    /\ PlaceIdle
    /\ terrainMap = [c \in Cells(TerrSize) |-> LAND]
    /\ ret = [op |-> "none"]
    /\ capacity = -1
    /\ InvIdle
    /\ GameIdle

MoveNext ==
    \/ SetTargetCall
    \/ ClearTargetCall
    \/ StopCall
    \/ SetVelocityCall
    \/ MovementUpdateCall

SpecMove == MoveInit /\ [][MoveNext]_vars

----------------------------------------------------------------------------
(* ItemGenerator.  The generator works on the terrain component and the
   forbidden areas it was given before the first generation, as
   _initializeItemGeneration does; the items it creates are added to the
   world's item entities. *)

PlaceSize == 3      \* gridSize of the world items are generated in
CoinCount == 2      \* config.coin.count of the generator driven here
SeedCount == 1      \* config.seed.count of the generator driven here
MaxPlaced == 3      \* most item entities the world is driven to

AttemptsPerItem == 10

\* this.config[itemType]: <<>> when there is no such entry
ItemConfig(itemType) ==
    CASE itemType = "coin" -> <<[count |-> CoinCount]>>
      [] itemType = "seed" -> <<[count |-> SeedCount]>>
      [] OTHER -> <<>>

\* this.terrainComponent of ItemGenerator, set by setTerrainComponent
ItemGenerator_terrainComponent == <<terrainMap>>

\* distance <= area.radius for some area
_isInForbiddenArea(areas, gridX, gridY) ==
    \E i \in 1 .. Len(areas) :
        Sq(gridX - areas[i].x) + Sq(gridY - areas[i].y) <= Sq(areas[i].radius)

_isValidPositionNoForbidden(occupied, areas, terrainComponent, gridX, gridY) ==
    IF gridX < 0 \/ gridX >= PlaceSize \/ gridY < 0 \/ gridY >= PlaceSize
    THEN FALSE
    ELSE IF <<gridX, gridY>> \in occupied
    THEN FALSE
    ELSE IF /\ terrainComponent # <<>>
            /\ ~isWalkable(PlaceSize, terrainComponent[1], gridX, gridY)
    THEN FALSE
    ELSE TRUE

_isValidPosition(occupied, areas, terrainComponent, gridX, gridY) ==
    IF gridX < 0 \/ gridX >= PlaceSize \/ gridY < 0 \/ gridY >= PlaceSize
    THEN FALSE
    ELSE IF <<gridX, gridY>> \in occupied
    THEN FALSE
    ELSE IF _isInForbiddenArea(areas, gridX, gridY)
    THEN FALSE
    ELSE IF /\ terrainComponent # <<>>
            /\ ~isWalkable(PlaceSize, terrainComponent[1], gridX, gridY)
    THEN FALSE
    ELSE TRUE

\* What _getRandomValidPosition can return: <<c>> for a valid cell c that one
\* of its draws hits, or <<>> (null) when every draw hits an invalid cell,
\* which needs an invalid cell to exist
_getRandomValidPosition(occupied, areas, terrainComponent) ==
    LET Valid == {c \in Cells(PlaceSize) :
                    _isValidPosition(occupied, areas, terrainComponent, c[1], c[2])}
    IN  {<<c>> : c \in Valid}
        \cup (IF Valid # Cells(PlaceSize) THEN {<<>>} ELSE {})

\* _createItemEntity: the item component of the new entity
_createItemEntity(itemType, gridX, gridY) ==
    [ItemComponent(itemType, gridX, gridY) EXCEPT !.collectable = TRUE]

\* generateAllItems is called: the one caller calls it on the new world
GenerateAllItemsCall ==
    /\ placing.pc \in {"idle", "returned"}
    /\ itemEnts = <<>>
    /\ occupiedPositions' = {}
    /\ placing' = [pc |-> "loop", itemType |-> "coin", items |-> <<>>,
                   attempts |-> 0, all |-> TRUE, short |-> {}]
    /\ UNCHANGED <<genVars, terrVars, invVars, gameVars, forbiddenAreas>>

\* Kinds handed to generateItemType and generateItemAt: the two configured
\* kinds and one that is not configured
PlaceKinds == {"coin", "seed", "gem"}

\* generateItemType is called: an unknown kind returns at once
GenerateItemTypeCall ==
    /\ placing.pc \in {"idle", "returned"}
    /\ \E itemType \in PlaceKinds :
         IF ItemConfig(itemType) = <<>>
         THEN placing' = [pc |-> "returned", itemType |-> itemType,
                          items |-> <<>>, attempts |-> 0, all |-> FALSE, short |-> {}]
         ELSE /\ Len(itemEnts) + ItemConfig(itemType)[1].count <= MaxPlaced
              /\ placing' = [pc |-> "loop", itemType |-> itemType,
                             items |-> <<>>, attempts |-> 0, all |-> FALSE, short |-> {}]
    /\ UNCHANGED <<genVars, terrVars, invVars, gameVars, occupiedPositions,
                   forbiddenAreas>>

PlaceLoopConditionNoLimit(p) ==
    Len(p.items) < ItemConfig(p.itemType)[1].count

\* items.length < targetCount && attempts < maxAttempts, with
\* maxAttempts = targetCount * 10
PlaceLoopCondition(p) ==
    /\ Len(p.items) < ItemConfig(p.itemType)[1].count
    /\ p.attempts < ItemConfig(p.itemType)[1].count * AttemptsPerItem

\* One iteration of  while (items.length < targetCount && attempts < maxAttempts);
\* pass is the outcome of the draw against config.probability
PlaceAttempt ==
    /\ placing.pc = "loop"
    /\ PlaceLoopCondition(placing)
    /\ \E position \in _getRandomValidPosition(occupiedPositions, forbiddenAreas,
                                              ItemGenerator_terrainComponent),
          pass \in BOOLEAN :
         IF position = <<>> \/ ~pass
         THEN /\ placing' = [placing EXCEPT !.attempts = @ + 1]
              /\ UNCHANGED <<itemEnts, occupiedPositions>>
         ELSE /\ placing' = [placing EXCEPT !.attempts = @ + 1,
                                            !.items = Append(@, position[1])]
              /\ itemEnts' = Append(itemEnts,
                    _createItemEntity(placing.itemType, position[1][1], position[1][2]))
              /\ occupiedPositions' = occupiedPositions \cup {position[1]}
    /\ UNCHANGED <<genVars, terrVars, invVars, pc, player, drag, inputManager,
                   gameCurrentDirection, forbiddenAreas>>

\* The loop condition fails: generateItemType returns its items; inside
\* generateAllItems the call for the seeds follows the one for the coins
\* if (items.length < targetCount) console.warn(... count mismatch ...):
\* the kinds warned about
PlaceShortfall(p) ==
    IF Len(p.items) < ItemConfig(p.itemType)[1].count THEN {p.itemType} ELSE {}

PlaceLoopExit ==
    /\ placing.pc = "loop"
    /\ ~PlaceLoopCondition(placing)
    /\ \E short \in {placing.short \cup PlaceShortfall(placing)} :
         placing' = IF placing.all /\ placing.itemType = "coin"
                    THEN [pc |-> "loop", itemType |-> "seed", items |-> <<>>,
                          attempts |-> 0, all |-> TRUE, short |-> short]
                    ELSE [placing EXCEPT !.pc = "returned", !.short = short]
    /\ UNCHANGED <<genVars, terrVars, invVars, gameVars, occupiedPositions,
                   forbiddenAreas>>

\* generateItemAt(itemType, gridX, gridY, world)
GenerateItemAtCall ==
    /\ placing.pc \in {"idle", "returned"}
    /\ Len(itemEnts) < MaxPlaced
    /\ \E itemType \in PlaceKinds, gridX \in -1 .. PlaceSize, gridY \in -1 .. PlaceSize :
         IF \/ ~_isValidPosition(occupiedPositions, forbiddenAreas,
                                 ItemGenerator_terrainComponent, gridX, gridY)
            \/ ItemConfig(itemType) = <<>>
         THEN UNCHANGED <<itemEnts, occupiedPositions>>
         ELSE /\ itemEnts' = Append(itemEnts, _createItemEntity(itemType, gridX, gridY))
              /\ occupiedPositions' = occupiedPositions \cup {<<gridX, gridY>>}
    /\ UNCHANGED <<genVars, terrVars, invVars, pc, player, drag, inputManager,
                   gameCurrentDirection, forbiddenAreas, placing>>

\* Terrain grids of the world: all land, land with water on the first cell
\* and on the last but one of the first column, all water
PlaceMaps ==
    {[c \in Cells(PlaceSize) |-> LAND],
     [c \in Cells(PlaceSize) |->
         IF c \in {<<0, 0>>, <<0, PlaceSize - 2>>} THEN WATER ELSE LAND],
     [c \in Cells(PlaceSize) |-> WATER]}

\* Arguments of setForbiddenAreas: none, and the cells within one cell of
\* the player's start cell
ForbiddenInputs ==
    {<<>>, <<[x |-> PlaceSize \div 2, y |-> PlaceSize \div 2, radius |-> 1]>>}

PlaceInit ==
    /\ gridSize = GenSize
    /\ maxRetries = MaxRetries
    /\ GenIdle
    /\ terrainMap \in PlaceMaps
    /\ ret = [op |-> "none"]
    /\ capacity = -1
    /\ InvIdle
    /\ GameIdle
    /\ occupiedPositions = {}
    /\ forbiddenAreas \in ForbiddenInputs
    /\ placing = [pc |-> "idle", itemType |-> "none", items |-> <<>>,
                  attempts |-> 0, all |-> FALSE, short |-> {}]

PlaceNext ==
    \/ GenerateAllItemsCall
    \/ GenerateItemTypeCall
    \/ PlaceAttempt
    \/ PlaceLoopExit
    \/ GenerateItemAtCall

SpecItems == PlaceInit /\ [][PlaceNext]_vars

----------------------------------------------------------------------------
(* MapGenerator.generateMap as a process *)

GenInit ==
    /\ gridSize = GenSize
    /\ maxRetries \in 0 .. MaxRetries
    /\ GenIdle
    /\ PlaceIdle
    /\ terrainMap = [c \in Cells(TerrSize) |-> LAND]
    /\ ret = [op |-> "none"]
    /\ capacity = -1
    /\ InvIdle
    /\ GameIdle

GenNext == GenCall \/ GenAttempt \/ GenLoopExit \/ GenReturn

SpecGen == GenInit /\ [][GenNext]_vars

----------------------------------------------------------------------------
(* MapGenerator._isConnected on any grid *)

MaxConnSize == 3     \* largest gridSize of the grids handed to _isConnected

\* _isConnected(terrainMap) is called on the grid held in genMap; it reads
\* the grid and writes only its own visited array and queue
IsConnectedCall ==
    /\ ret.op = "none"
    /\ ret' = [op |-> "_isConnected", val |-> _isConnected(gridSize, genMap[1])]
    /\ UNCHANGED <<placeVars, genVars, terrainMap, invVars, gameVars>>

\* new MapGenerator(gridSize) and a grid of Water and Land values
ConnInit ==
    /\ gridSize \in 1 .. MaxConnSize
    /\ maxRetries = MaxRetries
    /\ genPc = "idle"
    /\ attempts = 0
    /\ genMap \in {<<map>> : map \in [Cells(gridSize) -> {WATER, LAND}]}
    /\ genResult = <<>>
    /\ PlaceIdle
    /\ terrainMap = [c \in Cells(TerrSize) |-> LAND]
    /\ ret = [op |-> "none"]
    /\ capacity = -1
    /\ InvIdle
    /\ GameIdle

ConnNext == IsConnectedCall \/ CallDone

SpecConn == ConnInit /\ [][ConnNext]_vars

----------------------------------------------------------------------------
(* GridMoveGame._createPlayer on any terrain grid *)

MaxStartSize == 4

\* _createPlayer(): position and grid components of the new player entity
CreatePlayerCall ==
    /\ pc = "left"
    /\ pc' = "idle"
    /\ player' = [player EXCEPT
                    !.position = CellCentre(StartCellOf(gridSize, terrainMap)),
                    !.grid = StartCellOf(gridSize, terrainMap)]
    /\ UNCHANGED <<placeVars, genVars, terrVars, invVars, drag, inputManager,
                   gameCurrentDirection, itemEnts>>

\* A game of any size up to the bound whose terrain component holds any grid
\* of Water and Land, before the player is created
StartInit ==
    /\ gridSize \in 1 .. MaxStartSize
    /\ maxRetries = MaxRetries
    /\ GenIdle
    /\ PlaceIdle
    /\ terrainMap \in [Cells(gridSize) -> {WATER, LAND}]
    /\ ret = [op |-> "none"]
    /\ capacity = -1
    /\ InvIdle
    /\ GameIdle

SpecStart == StartInit /\ [][CreatePlayerCall]_vars

----------------------------------------------------------------------------
(* GridMoveGame._createTerrain with a generator that is given no attempt *)

MaxDefaultSize == 6     \* largest gridSize of the game whose map is the fallback

\* The grid as generateMap returns it: rows[x + 1][y + 1] is cell (x, y)
MapRows(n, map) ==
    [x \in 1 .. n |-> [y \in 1 .. n |-> map[<<x - 1, y - 1>>]]]

\* terrainComponent.setTerrainMap(terrainMap) with the generated grid
CreateTerrainSetMap ==
    /\ genPc = "returned"
    /\ ret.op = "none"
    /\ terrainMap' = setTerrainMap(gridSize, terrainMap,
                                   <<MapRows(gridSize, genResult[1])>>)
    /\ ret' = [op |-> "setTerrainMap"]
    /\ UNCHANGED <<placeVars, genVars, invVars, gameVars>>

\* terrainComponent.isWalkable(gridX, gridY) on the terrain of the game
TerrainIsWalkableCall ==
    /\ ret.op = "none"
    /\ \E x \in Coord(gridSize), y \in Coord(gridSize) :
         ret' = [op |-> "isWalkable", x |-> x, y |-> y,
                 val |-> isWalkable(gridSize, terrainMap, x, y)]
    /\ UNCHANGED <<placeVars, genVars, terrainMap, invVars, gameVars>>

\* new TerrainComponent(gridSize), new MapGenerator(gridSize, {maxRetries: 0})
DefaultInit ==
    /\ gridSize \in 1 .. MaxDefaultSize
    /\ maxRetries = 0
    /\ GenIdle
    /\ PlaceIdle
    /\ terrainMap = [c \in Cells(gridSize) |-> LAND]
    /\ ret = [op |-> "none"]
    /\ capacity = -1
    /\ InvIdle
    /\ GameIdle

\* generateMap without GenAttempt: the loop body never runs
DefaultNext ==
    \/ GenCall
    \/ GenLoopExit
    \/ GenReturn
    \/ CreateTerrainSetMap
    \/ TerrainIsWalkableCall
    \/ CallDone

SpecDefault == DefaultInit /\ [][DefaultNext]_vars

----------------------------------------------------------------------------
(* Connectivity, stated without the generator's own search *)

LandCells(n, map) == {c \in Cells(n) : map[c] = LAND}

Adjacent4(a, b) == Abs(a[1] - b[1]) + Abs(a[2] - b[2]) = 1

RECURSIVE ReachFrom(_, _)
ReachFrom(land, seen) ==
    LET more == {c \in land \ seen : \E s \in seen : Adjacent4(c, s)}
    IN  IF more = {} THEN seen ELSE ReachFrom(land, seen \cup more)

AllLandConnected(n, map) ==
    \A s \in LandCells(n, map) : ReachFrom(LandCells(n, map), {s}) = LandCells(n, map)

IsGrid(n, map) ==
    /\ DOMAIN map = Cells(n)
    /\ \A c \in Cells(n) : map[c] \in {WATER, LAND}

\* C1: every grid returned by generateMap, from an accepted random attempt or
\* from the fallback, has all its land cells in one 4-connected component: a
\* traversal from any land cell reaches every land cell.
C1_Connectivity ==
    genPc = "returned" => AllLandConnected(GenSize, genResult[1])

\* A random attempt accepted after an earlier attempt was rejected, with
\* several land cells.
C1_Witness ==
    /\ genPc = "returned"
    /\ genMap # <<>>
    /\ attempts >= 2
    /\ Cardinality(LandCells(GenSize, genResult[1])) >= 3

\* C10, the state part: never more than maxRetries attempts; what is returned
\* is a size x size grid, the accepted attempt if one passed the connectivity
\* check and the fallback disk if none did (all maxRetries attempts failed).
C10_Inv ==
    /\ attempts <= maxRetries
    /\ genMap # <<>> => genPc \in {"after", "returned"} /\ _isConnected(GenSize, genMap[1])
    /\ genPc = "returned" =>
         /\ genResult # <<>>
         /\ IsGrid(GenSize, genResult[1])
         /\ genMap # <<>> => genResult = genMap
         /\ genMap = <<>> =>
              /\ attempts = maxRetries
              /\ genResult[1] = _createDefaultMap(GenSize)

\* The number of steps generateMap can still take before it returns
GenMeasure ==
    CASE genPc = "loop" -> 2 * (maxRetries - attempts) + 2
      [] genPc = "after" -> 1
      [] OTHER -> 0

\* C10, the step part: an attempt is made only inside the loop and counts one;
\* once an attempt passed, no further attempt is made in that call; every step
\* of a running call brings the return strictly closer (so the call ends
\* after at most 2 * maxRetries + 2 steps).
C10_Step ==
    /\ (attempts' # attempts /\ attempts' # 0) =>
          (genPc = "loop" /\ genMap = <<>> /\ attempts' = attempts + 1)
    /\ (genPc = "after") => (genMap' = genMap /\ attempts' = attempts)
    /\ (genPc \in {"loop", "after"}) =>
          (GenMeasure' < GenMeasure /\ GenMeasure' >= 0)

\* C10: generateMap always terminates and returns a size x size grid: at most
\* maxRetries generate-erode-check attempts, the first passing attempt is
\* returned, the fallback disk when none passed (including maxRetries = 0).
C10_Terminates == []C10_Inv /\ [][C10_Step]_vars

\* All maxRetries attempts failed and the fallback was returned.
C10_Witness ==
    /\ genPc = "returned"
    /\ genMap = <<>>
    /\ attempts = MaxRetries
    /\ genResult[1] = _createDefaultMap(GenSize)

----------------------------------------------------------------------------
(* TerrainComponent queries *)

\* C2: canMoveTo(from, to) is true iff to is inside the grid, the terrain at
\* to is walkable and to is orthogonally adjacent to from (|dx| + |dy| = 1);
\* for every pair of coordinates and every reachable terrain grid, and for
\* the call just made.
C2_MoveLegality ==
    /\ \A fx \in Coord(TerrSize), fy \in Coord(TerrSize),
          tx \in Coord(TerrSize), ty \in Coord(TerrSize) :
         canMoveTo(TerrSize, terrainMap, fx, fy, tx, ty) <=>
            /\ <<tx, ty>> \in Cells(TerrSize)
            /\ isTerrainWalkable(terrainMap[<<tx, ty>>])
            /\ Abs(tx - fx) + Abs(ty - fy) = 1
    /\ ret.op = "canMoveTo" =>
         (ret.val <=>
            /\ <<ret.x, ret.y>> \in Cells(TerrSize)
            /\ isTerrainWalkable(terrainMap[<<ret.x, ret.y>>])
            /\ Abs(ret.x - ret.fx) + Abs(ret.y - ret.fy) = 1)

\* A diagonal step onto a walkable cell was refused on a grid that also holds
\* water.
C2_Witness ==
    /\ ret.op = "canMoveTo"
    /\ ~ret.val
    /\ <<ret.x, ret.y>> \in Cells(TerrSize)
    /\ isTerrainWalkable(terrainMap[<<ret.x, ret.y>>])
    /\ Abs(ret.x - ret.fx) = 1 /\ Abs(ret.y - ret.fy) = 1
    /\ \E c \in Cells(TerrSize) : terrainMap[c] = WATER

\* C3: for every coordinate outside the grid getTerrainAt returns Water and
\* isWalkable returns false, in every reachable terrain state.
C3_BoundaryClosure ==
    /\ \A x \in Coord(TerrSize), y \in Coord(TerrSize) :
         <<x, y>> \notin Cells(TerrSize) =>
            /\ getTerrainAt(TerrSize, terrainMap, x, y) = WATER
            /\ ~isWalkable(TerrSize, terrainMap, x, y)
    /\ (ret.op = "getTerrainAt" /\ <<ret.x, ret.y>> \notin Cells(TerrSize)) =>
          ret.val = WATER
    /\ (ret.op = "isWalkable" /\ <<ret.x, ret.y>> \notin Cells(TerrSize)) =>
          ret.val = FALSE

\* isWalkable was asked about a coordinate outside a grid that has been
\* rewritten to hold both water and land.
C3_Witness ==
    /\ ret.op = "isWalkable"
    /\ <<ret.x, ret.y>> \notin Cells(TerrSize)
    /\ ret.val = FALSE
    /\ \E c \in Cells(TerrSize) : terrainMap[c] = WATER
    /\ \E c \in Cells(TerrSize) : terrainMap[c] = LAND

----------------------------------------------------------------------------
(* InventoryComponent ledger *)

KindsOf(its) == [i \in 1 .. Len(its) |-> its[i].type]

Without(kindSeq, type) ==
    LET Other(k) == k # type IN SelectSeq(kindSeq, Other)

\* C8, the example: from an empty ledger the collection order seed, coin,
\* seed reads back as seed 2, coin 1, in that order, whatever the capacity
\* that admits two kinds.
C8_Example ==
    \A cap \in {-1, 2} :
      LET a == addItem(<<>>, cap, "seed", 1)
          b == addItem(a.items, cap, "coin", 1)
          c == addItem(b.items, cap, "seed", 1)
      IN  /\ a.ok /\ b.ok /\ c.ok
          /\ getInventoryData(c.items) =
               <<[type |-> "seed", count |-> 2, empty |-> FALSE],
                 [type |-> "coin", count |-> 1, empty |-> FALSE]>>

\* C8, the step part: an accepted addItem of a kind already present keeps the
\* sequence of kinds, one of a new kind appends it at the end, a rejected one
\* changes nothing; removeItem keeps the relative order of all other kinds.
C8_Step ==
    /\ ret'.op = "addItem" =>
         KindsOf(items') =
            IF ~ret'.val \/ (\E i \in 1 .. Len(items) : items[i].type = ret'.type)
            THEN KindsOf(items)
            ELSE Append(KindsOf(items), ret'.type)
    /\ ret'.op = "removeItem" =>
         /\ Without(KindsOf(items'), ret'.type) = Without(KindsOf(items), ret'.type)
         /\ \/ KindsOf(items') = KindsOf(items)
            \/ KindsOf(items') = Without(KindsOf(items), ret'.type)

\* C8: the ledger lists kinds in the order in which each kind was first
\* added (seed, coin, seed reads back as seed 2, coin 1); getInventoryData
\* returns the records in the ledger's order; adding to an existing kind or
\* removing from another kind never reorders the records.
C8_LedgerOrder ==
    /\ [](C8_Example
          /\ (ret.op = "getInventoryData" =>
                /\ Len(ret.val) = Len(items)
                /\ \A i \in 1 .. Len(items) :
                     /\ ret.val[i].type = items[i].type
                     /\ ret.val[i].count = items[i].count))
    /\ [][C8_Step]_vars

\* getInventoryData has returned seed 2, coin 1 in that order.
C8_Witness ==
    /\ ret.op = "getInventoryData"
    /\ ret.val = <<[type |-> "seed", count |-> 2, empty |-> FALSE],
                   [type |-> "coin", count |-> 1, empty |-> FALSE]>>

----------------------------------------------------------------------------
(* The running game *)

CellOf(it) == <<it.gridX, it.gridY>>

\* The count the ledger holds of a kind, 0 when it has no record of it
CountOf(its, type) ==
    IF FindIndex(its, type) = 0 THEN 0 ELSE its[FindIndex(its, type)].count

ItemIds == 1 .. Len(itemEnts)

\* C4: when GridSystem.update finds the moving player less than 3 px from
\* its target (the target cell walkable), afterwards the position is the
\* target exactly, which is the centre of the new grid cell; the grid cell is
\* the one containing the target, inside the grid; the target is cleared,
\* moving is false and the velocity is zero.
C4_SnapExact ==
    [][(/\ pc = "grid"
        /\ player.moving
        /\ player.target # <<>>
        /\ Dist2(player.target, player.position) < 9
        /\ isTerrainWalkable(terrainMap[<<ClampGrid(player.target[1] \div CellSize),
                                          ClampGrid(player.target[2] \div CellSize)>>]))
       => (/\ player'.position = player.target
           /\ player'.position = CellCentre(player'.grid)
           /\ player'.grid = <<player.target[1] \div CellSize,
                               player.target[2] \div CellSize>>
           /\ player'.grid \in Cells(GameSize)
           /\ player'.target = <<>>
           /\ ~player'.moving
           /\ player'.velocity = <<0, 0>>)]_vars

\* GridSystem has just snapped the player onto a cell other than the one it
\* started on: the committed direction is still set, the velocity is zero.
C4_Witness ==
    /\ pc = "collection"
    /\ player.target = <<>>
    /\ ~player.moving
    /\ player.velocity = <<0, 0>>
    /\ player.position = CellCentre(player.grid)
    /\ player.grid # StartCell(terrainMap)
    /\ drag.currentDirection # <<>>

\* C5: when DragSystem finds the player resting at the centre of its cell
\* with a candidate direction whose neighbouring cell is inside the grid but
\* not walkable, no move starts: grid cell and position are unchanged, the
\* velocity is zero, the target is null, moving is false, the committed
\* direction is cleared and the direction display reads blocked.
C5_Blocked ==
    [][(/\ pc = "drag"
        /\ drag.nextDirection # <<>>
        /\ ~player.moving
        /\ player.target = <<>>
        /\ player.position = CellCentre(player.grid)
        /\ <<player.grid[1] + drag.nextDirection[1],
             player.grid[2] + drag.nextDirection[2]>> \in Cells(GameSize)
        /\ ~isTerrainWalkable(terrainMap[<<player.grid[1] + drag.nextDirection[1],
                                           player.grid[2] + drag.nextDirection[2]>>]))
       => (/\ player'.grid = player.grid
           /\ player'.position = player.position
           /\ player'.velocity = <<0, 0>>
           /\ player'.target = <<>>
           /\ ~player'.moving
           /\ drag'.currentDirection = <<>>
           /\ gameCurrentDirection' = "blocked")]_vars

\* DragSystem has just refused a move onto water next to the resting player.
C5_Witness ==
    /\ pc = "idle"
    /\ gameCurrentDirection = "blocked"
    /\ drag.nextDirection # <<>>
    /\ ~player.moving
    /\ player.position = CellCentre(player.grid)
    /\ <<player.grid[1] + drag.nextDirection[1],
         player.grid[2] + drag.nextDirection[2]>> \in Cells(GameSize)
    /\ terrainMap[<<player.grid[1] + drag.nextDirection[1],
                    player.grid[2] + drag.nextDirection[2]>>] = WATER

\* The ledger took the kind in this step or takes every kind: with a limit
\* on the kinds, a kind is in the ledger after the step iff it was there
\* before or an item of it was accepted in the step
LedgerAccepts(type) ==
    capacity <= 0 \/ \E j \in 1 .. Len(items') : items'[j].type = type

NewlyCollected == {i \in ItemIds : ~itemEnts[i].collected /\ itemEnts'[i].collected}

C6_Step ==
    pc = "collection" =>
      /\ Len(itemEnts') = Len(itemEnts)
      /\ \A i \in ItemIds :
           /\ i \in NewlyCollected =>
                (itemEnts[i].collectable /\ CellOf(itemEnts[i]) = player.grid)
           /\ CellOf(itemEnts[i]) # player.grid => itemEnts'[i] = itemEnts[i]
           /\ (/\ canBeCollected(itemEnts[i])
               /\ CellOf(itemEnts[i]) = player.grid
               /\ LedgerAccepts(itemEnts[i].type)) => i \in NewlyCollected
      /\ \A type \in Kinds \cup {"block"} :
           CountOf(items', type) =
              CountOf(items, type)
              + Cardinality({i \in NewlyCollected : itemEnts[i].type = type})

\* C6: in every CollectionSystem step a collectable, not yet collected item
\* is collected iff its cell equals the player's grid cell exactly and the
\* ledger accepts it; items on other cells are untouched; every collected
\* item raises the ledger count of its kind by exactly 1.
C6_CollectIffSameCell == [][C6_Step]_vars

\* A collection step has just collected the item on the player's cell while
\* leaving an uncollected item of the same column on another cell.
C6_Witness ==
    /\ pc = "drag"
    /\ \E i, j \in ItemIds :
         /\ itemEnts[i].collected
         /\ CellOf(itemEnts[i]) = player.grid
         /\ CountOf(items, itemEnts[i].type) = 1
         /\ ~itemEnts[j].collected
         /\ itemEnts[j].collectable
         /\ itemEnts[j].gridX = player.grid[1]
         /\ itemEnts[j].gridY # player.grid[2]

\* C7, the state part: collect() on a collected item changes nothing and
\* returns false; the ledger count of every kind is the number of collected
\* items of that kind, so no item is counted twice however many frames pass.
C7_Inv ==
    /\ \A i \in ItemIds :
         itemEnts[i].collected =>
            collect(itemEnts[i]) = [item |-> itemEnts[i], ok |-> FALSE]
    /\ \A type \in Kinds \cup {"block"} :
         CountOf(items, type) =
            Cardinality({i \in ItemIds : itemEnts[i].collected
                                         /\ itemEnts[i].type = type})

\* C7, the step part: a collected item is left as it is by every step, its
\* flag never becomes false again.
C7_Step ==
    \A i \in ItemIds : itemEnts[i].collected => itemEnts'[i] = itemEnts[i]

\* C7: an item is counted at most once: a further collection attempt on a
\* collected item is a no-op, one item raises the count of its kind by
\* exactly 1 over any number of frames, and a collected flag never reverts.
C7_CountedOnce == []C7_Inv /\ [][C7_Step]_vars

\* A collection step has run while the player, refused a move a frame ago,
\* still stands on the cell of an item it has collected.
C7_Witness ==
    /\ pc = "drag"
    /\ gameCurrentDirection = "blocked"
    /\ ~player.moving
    /\ \E i \in ItemIds :
         /\ itemEnts[i].collected
         /\ CellOf(itemEnts[i]) = player.grid
         /\ CountOf(items, itemEnts[i].type) = 1

C9_Step ==
    pc = "collection" =>
      /\ \A i \in ItemIds :
           /\ (/\ canBeCollected(itemEnts[i])
               /\ CellOf(itemEnts[i]) = player.grid
               /\ ~LedgerAccepts(itemEnts[i].type))
              => (/\ itemEnts'[i] = itemEnts[i]
                  /\ canBeCollected(itemEnts'[i]))
           /\ (/\ canBeCollected(itemEnts[i])
               /\ CellOf(itemEnts[i]) = player.grid
               /\ capacity > 0
               /\ Len(items) >= capacity
               /\ FindIndex(items, itemEnts[i].type) = 0)
              => (/\ itemEnts'[i] = itemEnts[i]
                  /\ FindIndex(items', itemEnts[i].type) = 0)
           /\ (/\ canBeCollected(itemEnts[i])
               /\ CellOf(itemEnts[i]) = player.grid
               /\ LedgerAccepts(itemEnts[i].type))
              => (itemEnts'[i].collected /\ itemEnts'[i].alpha = 0)
      /\ NewlyCollected = {} => (items' = items /\ dirty' = dirty)

\* C9: when addItem rejects the addition during a collection (a new kind
\* with the ledger at capacity) the collection is rolled back: after the
\* step the item's collected flag is false, the item is as it was, the
\* ledger is unchanged by it; the item stays collectible and is collected in
\* a later step once the ledger accepts it while the player is on its cell.
C9_Rollback == [][C9_Step]_vars

\* With room for one kind, both items stacked on one cell are collected:
\* the second was rejected while the ledger held the first kind and was
\* collected after the host had spent that kind.
C9_Witness ==
    /\ capacity = 1
    /\ \E i, j \in ItemIds :
         /\ i # j
         /\ CellOf(itemEnts[i]) = CellOf(itemEnts[j])
         /\ itemEnts[i].type # itemEnts[j].type
         /\ itemEnts[i].collected
         /\ itemEnts[j].collected

----------------------------------------------------------------------------
(* MovementComponent: moving and target *)

\* C11: moving is true if and only if the target is non-null, in every
\* reachable state: after any sequence of setTarget, clearTarget, stop and
\* setVelocity, and after every step of the frame pipeline.
C11_MovingIffTarget ==
    player.moving <=> player.target # <<>>

----------------------------------------------------------------------------
(* Grid coordinate *)

\* C12: the player's grid coordinate satisfies 0 <= gridX < size and
\* 0 <= gridY < size in every state, so after every GridSystem and DragSystem
\* step, wherever the pixel position is and whatever pointer events and
\* frames came before.
C12_GridInBounds ==
    player.grid \in Cells(GameSize)

\* Placed left of the grid, the player was given the clamped cell of the
\* first column by DragSystem and is on its way to the next cell.
C12_Witness ==
    /\ player.position = <<0 - 1, HalfCell>>
    /\ player.grid = <<0, 0>>
    /\ player.moving
    /\ player.target = CellCentre(<<1, 0>>)

----------------------------------------------------------------------------
(* InventoryComponent: the records *)

C13_Inv ==
    /\ \A i, j \in 1 .. Len(items) : items[i].type = items[j].type => i = j
    /\ \A i \in 1 .. Len(items) : items[i].count > 0

\* An accepted removeItem of the whole count of a kind leaves no record of
\* the kind; one of less leaves the record with the rest
C13_Step ==
    (ret'.op = "removeItem" /\ ret'.val) =>
       /\ CountOf(items, ret'.type) >= ret'.count
       /\ CountOf(items', ret'.type) = CountOf(items, ret'.type) - ret'.count
       /\ CountOf(items, ret'.type) = ret'.count =>
            /\ FindIndex(items', ret'.type) = 0
            /\ Len(items') = Len(items) - 1

\* C13: after any sequence of addItem, removeItem and clear no two ledger
\* records have the same kind and every record has count > 0; a record whose
\* count reaches 0 through removeItem is deleted, not kept at zero.
C13_RecordsDistinctPositive == []C13_Inv /\ [][C13_Step]_vars

\* removeItem has just taken the whole count 2 of a kind out of a ledger
\* that still holds another kind.
C13_Witness ==
    /\ ret.op = "removeItem"
    /\ ret.val
    /\ ret.count = 2
    /\ FindIndex(items, ret.type) = 0
    /\ Len(items) >= 1

----------------------------------------------------------------------------
(* Pointer-up *)

FingerUp == ~inputManager.touching /\ ~inputManager'.touching

PointerUp == inputManager.touching /\ ~inputManager'.touching

C14_Step ==
    /\ PointerUp => player' = player
    /\ FingerUp =>
         /\ player'.target \in {player.target, <<>>}
         /\ (player.target # <<>> /\ player'.target = <<>>) =>
               player'.position = player.target
         /\ player'.target # <<>> =>
               \E c \in Cells(GameSize) : player'.target = CellCentre(c)
         /\ (pc' = "idle" /\ player'.target = <<>>) =>
               /\ player'.velocity = <<0, 0>>
               /\ ~player'.moving
               /\ (\E c \in Cells(GameSize) : player'.position = CellCentre(c)) =>
                     player'.position = CellCentre(player'.grid)

\* C14: a pointer-up during an in-flight move does not stop it: the
\* pointer-up leaves target, position and moving flag as they are; with the
\* finger up the player keeps the target it had committed to, the centre of
\* a cell, until it is placed exactly on it; the frame that placed it ends
\* with that cell as its grid coordinate, target null and velocity zero;
\* and no further move starts.
C14_PointerUpKeepsMove == [][C14_Step]_vars

C15_Step ==
    /\ PointerUp => (drag'.nextDirection = <<>> /\ ~drag'.dragging)
    /\ FingerUp => (drag'.nextDirection = <<>> /\ ~drag'.dragging)

\* C15: every pointer-up or touch-cancel delivered by the input manager,
\* wherever the release happens, leaves the drag controller with
\* nextDirection = null and dragging = false, and they stay so while the
\* finger is up.
C15_PointerUpClears == [][C15_Step]_vars

----------------------------------------------------------------------------
(* The order of the systems within a frame *)

\* System s runs in this step
Ran(s) == pc = Before(s) /\ pc' = After(s)

----------------------------------------------------------------------------
(* ItemGenerator: where items are placed *)

PlacedCells == {CellOf(itemEnts[i]) : i \in ItemIds}

C17_Inv ==
    /\ \A i \in ItemIds :
         /\ CellOf(itemEnts[i]) \in Cells(PlaceSize)
         /\ isTerrainWalkable(terrainMap[CellOf(itemEnts[i])])
         /\ \A k \in 1 .. Len(forbiddenAreas) :
              Dist2(CellOf(itemEnts[i]), <<forbiddenAreas[k].x, forbiddenAreas[k].y>>)
                 > Sq(forbiddenAreas[k].radius)
         /\ \A j \in ItemIds : CellOf(itemEnts[i]) = CellOf(itemEnts[j]) => i = j
    /\ occupiedPositions = PlacedCells

\* A step that places an item places one, on a cell no earlier item is on
C17_Step ==
    itemEnts' # itemEnts =>
       /\ Len(itemEnts') = Len(itemEnts) + 1
       /\ \A i \in ItemIds : itemEnts'[i] = itemEnts[i]
       /\ CellOf(itemEnts'[Len(itemEnts')]) \notin occupiedPositions
       /\ CellOf(itemEnts'[Len(itemEnts')]) \notin PlacedCells
       /\ itemEnts'[Len(itemEnts')].type \in {"coin", "seed"}

----------------------------------------------------------------------------
(* ItemGenerator: generateItemType ends *)

TargetCount == IF ItemConfig(placing.itemType) = <<>>
               THEN 0 ELSE ItemConfig(placing.itemType)[1].count

C18_Inv ==
    placing.pc \in {"loop", "returned"} =>
       /\ placing.attempts <= 10 * TargetCount
       /\ Len(placing.items) <= TargetCount
       /\ Len(placing.items) <= placing.attempts
       /\ placing.pc = "returned" =>
            \* fewer items than asked for only after every attempt was used
            /\ Len(placing.items) < TargetCount => placing.attempts = 10 * TargetCount
            \* and the shortfall of the kind is reported, and only then
            /\ placing.itemType \in placing.short <=> Len(placing.items) < TargetCount

\* The number of steps the running call can still take before it returns
PlaceMeasure ==
    IF placing.pc # "loop"
    THEN 0
    ELSE (10 * TargetCount - placing.attempts) + 1
         + (IF placing.all /\ placing.itemType = "coin" THEN 10 * SeedCount + 1 ELSE 0)

\* Every step of a running call counts one attempt or leaves the loop, and
\* brings the return strictly closer
C18_Step ==
    placing.pc = "loop" =>
       /\ PlaceMeasure' < PlaceMeasure
       /\ PlaceMeasure' >= 0
       /\ (placing'.pc = "loop" /\ placing'.itemType = placing.itemType) =>
             placing'.attempts = placing.attempts + 1

\* C18: generateItemType ends for every terrain and configuration: it makes
\* at most 10 x count placement attempts for the kind and returns between 0
\* and count items; a shortfall, also when no valid cell exists, is reported
\* as a count mismatch after all the attempts, not as an endless loop.
C18_PlacementEnds == []C18_Inv /\ [][C18_Step]_vars

\* On a grid of water generateItemType has returned no coin after all its
\* attempts.
C18_Witness ==
    /\ placing.pc = "returned"
    /\ placing.itemType = "coin"
    /\ placing.items = <<>>
    /\ placing.attempts = 10 * CoinCount
    /\ placing.short = {"coin"}
    /\ \A c \in Cells(PlaceSize) : terrainMap[c] = WATER

----------------------------------------------------------------------------
(* TerrainComponent: the kinds in the grid *)

C19_Inv == \A c \in Cells(TerrSize) : terrainMap[c] \in {WATER, LAND}

C19_Step ==
    (ret.op = "none" /\ ret'.op = "setTerrainAt") =>
       ((\/ ~_isValidCoordinate(TerrSize, ret'.x, ret'.y)
         \/ ret'.terrainType \notin {WATER, LAND})
        => terrainMap' = terrainMap)

\* C19: every cell of the terrain grid always holds Water or Land:
\* setTerrainAt called with a coordinate outside the grid, or with a terrain
\* type that is not a defined kind, leaves the grid unchanged.
C19_OnlyDefinedKinds == []C19_Inv /\ [][C19_Step]_vars

----------------------------------------------------------------------------
(* MapGenerator: the fallback grid *)

\* The grid whose land is the cells with dx^2 + dy^2 <= r2num / r2den around
\* (floor(n / 2), floor(n / 2))
IsDisk(n, map, r2num, r2den) ==
    /\ DOMAIN map = Cells(n)
    /\ \A c \in Cells(n) :
         /\ map[c] \in {WATER, LAND}
         /\ map[c] = LAND <=>
              r2den * ((c[1] - n \div 2) * (c[1] - n \div 2)
                       + (c[2] - n \div 2) * (c[2] - n \div 2)) <= r2num

\* C20 as stated: when no attempt yields a connected grid, generateMap returns
\* the disk of radius 0.35 x size: land iff the Euclidean distance to
\* (floor(size/2), floor(size/2)) is at most 0.35 x size.
C20_DiskRadiusExact ==
    genPc = "returned" =>
       IsDisk(gridSize, genResult[1], (35 * gridSize) * (35 * gridSize), 10000)

\* C20, amended: when no attempt yields a connected grid, generateMap returns
\* the disk of radius floor(0.35 x size): a cell is land iff its Euclidean
\* distance to (floor(size/2), floor(size/2)) is at most floor(0.35 x size);
\* every cell is fixed by the size, so the result does not depend on the
\* random source.  The game's terrain is that grid.
C20_DiskRadiusFloor ==
    /\ genPc = "returned" =>
         LET r == (35 * gridSize) \div 100
         IN  IsDisk(gridSize, genResult[1], r * r, 1)
    /\ (genPc = "returned" /\ ret.op = "setTerrainMap") => terrainMap = genResult[1]

\* The fallback of a 5 x 5 grid was returned: the diagonal neighbours of the
\* centre, at distance 1.41 <= 1.75, are water.
C20_Witness ==
    /\ genPc = "returned"
    /\ gridSize = 5
    /\ attempts = 0
    /\ genResult[1][<<2, 2>>] = LAND
    /\ genResult[1][<<2, 1>>] = LAND
    /\ genResult[1][<<1, 1>>] = WATER

----------------------------------------------------------------------------
(* DragSystem: a new pointer-down *)

\* A pointer-down in the game area
PointerDownAccepted ==
    /\ ~inputManager.touching
    /\ inputManager'.touching
    /\ ~isInUIArea(inputManager'.touch[1], inputManager'.touch[2])

C21_Step ==
    PointerDownAccepted =>
       /\ drag'.dragging
       /\ drag'.dragStart = inputManager'.touch
       /\ drag'.nextDirection = <<>>

\* C21: a new pointer-down supersedes any stale drag state: after a
\* pointer-down accepted in the game area the drag origin is the new press
\* point and no candidate direction of an earlier drag is still held.
C21_PointerDownSupersedes == [][C21_Step]_vars

----------------------------------------------------------------------------
(* MovementSystem: what kinematic integration writes *)

\* C22 as stated: MovementSystem.update writes only the pixel position, never
\* the target, the moving flag or the velocity; those fields are changed only
\* by DragSystem and GridSystem.
C22_Original ==
    /\ Ran("movement") =>
         /\ player'.target = player.target
         /\ player'.moving = player.moving
         /\ player'.velocity = player.velocity
    /\ (\/ player'.target # player.target
        \/ player'.moving # player.moving
        \/ player'.velocity # player.velocity) => (Ran("drag") \/ Ran("grid"))

C22_MoverWritesOnlyPosition == [][C22_Original]_vars

C22_Step ==
    /\ Ran("movement") =>
         /\ player'.velocity = player.velocity
         /\ player'.grid = player.grid
         \* arrival at the target clears target and moving flag
         /\ (player.target # <<>> /\ player'.position = player.target) =>
               (player'.target = <<>> /\ ~player'.moving)
         \* and nothing else changes them
         /\ (player'.target # player.target \/ player'.moving # player.moving) =>
               /\ player.target # <<>>
               /\ player'.position = player.target
               /\ player'.target = <<>>
               /\ ~player'.moving
    /\ player'.velocity # player.velocity => (Ran("drag") \/ Ran("grid"))
    /\ (player'.target # player.target \/ player'.moving # player.moving) =>
          (Ran("drag") \/ Ran("grid") \/ Ran("movement"))

\* C22, amended: MovementSystem.update writes the pixel position and never the
\* velocity; in the step in which the entity arrives at its target it also
\* clears the target and the moving flag, and otherwise leaves them as they
\* were.  The velocity is changed only by DragSystem and GridSystem, target
\* and moving flag only by them and by that arrival.
C22_MoverClearsOnArrival == [][C22_Step]_vars

\* MovementSystem has just arrived: the target is cleared and the entity is
\* not moving, with the velocity of the move still set and the grid
\* coordinate still that of the cell it left.
C22_Witness ==
    /\ pc = After("movement")
    /\ player.target = <<>>
    /\ ~player.moving
    /\ player.velocity # <<0, 0>>
    /\ player.position # CellCentre(player.grid)
    /\ \E c \in Cells(GameSize) : player.position = CellCentre(c)

----------------------------------------------------------------------------
(* Grid-locked rest *)

\* C23: at the end of every frame in which the entity is not moving (target
\* null) its pixel position is exactly the centre of its grid cell, for every
\* sequence of pointer events and every frame duration, also when a move is
\* blocked or redirected just after the entity left a cell centre.
C23_RestsOnCellCentre ==
    (pc = "idle" /\ player.target = <<>>) =>
       player.position = CellCentre(player.grid)

----------------------------------------------------------------------------
(* CollectionSystem: the cleanup pass *)

C24_Step ==
    (ret.op = "none" /\ ret'.op = "cleanupCollectedItems") =>
       /\ itemEnts' = SelectSeq(itemEnts, LAMBDA it : ~it.collected)
       /\ ret'.val = Len(itemEnts) - Len(itemEnts')

\* C24: cleanupCollectedItems removes every item entity whose collected flag
\* is true from the live entities of the world, leaves every uncollected item
\* in place, and returns the number of entities removed.
C24_CleanupRemovesCollected == [][C24_Step]_vars

----------------------------------------------------------------------------
(* DragSystem.update: mid-flight, reconciliation, grid edge *)

\* A candidate direction is held, a move is in flight and the position is
\* 3 px or more from the centre of the entity's cell
MidFlight ==
    /\ drag.nextDirection # <<>>
    /\ player.moving
    /\ player.target # <<>>
    /\ Dist2(player.position, CellCentre(player.grid)) >= 9

C25_Step ==
    (Ran("drag") /\ MidFlight) =>
       /\ player' = player
       /\ drag' = drag
       /\ gameCurrentDirection' = gameCurrentDirection

\* C25: in a frame where a candidate direction is held, a move is in flight
\* and the pixel position is 3 px or more from the centre of the entity's
\* cell, DragSystem.update changes nothing: grid coordinate, target, velocity,
\* moving flag and committed direction stay as they were.
C25_MidFlightUntouched == [][C25_Step]_vars

\* After a frame the entity is half a cell from the centre of its cell, in
\* flight to the left, while the held candidate is another direction.
C25_Witness ==
    /\ pc = "idle"
    /\ MidFlight
    /\ Dist2(player.position, CellCentre(player.grid)) = HalfCell * HalfCell
    /\ drag.currentDirection = <<-1, 0>>
    /\ drag.nextDirection = <<0, -1>>
    /\ player.velocity = <<0 - PlayerSpeed, 0>>

\* DragSystem.update reconciles the candidate and the move is legal: the
\* entity is not moving or within 3 px of the centre of its cell, and the
\* cell next to the one it stands on, in the candidate direction, is inside
\* the grid and walkable
LegalReconciliation ==
    /\ drag.nextDirection # <<>>
    /\ (~player.moving \/ Dist2(player.position, CellCentre(player.grid)) < 9)
    /\ LET here == _updateGridPosition(player.position)
           there == <<here[1] + drag.nextDirection[1], here[2] + drag.nextDirection[2]>>
       IN  /\ there \in Cells(GameSize)
           /\ terrainMap[there] = LAND

C26_Step ==
    (Ran("drag") /\ LegalReconciliation) =>
       /\ player'.grid = _updateGridPosition(player.position)
       /\ player'.target =
             <<(player'.grid[1] + drag.nextDirection[1]) * CellSize + HalfCell,
               (player'.grid[2] + drag.nextDirection[2]) * CellSize + HalfCell>>
       /\ player'.moving
       /\ player'.position = player.position
       /\ drag'.currentDirection = drag.nextDirection
       /\ drag'.nextDirection = drag.nextDirection
       /\ player'.velocity =
             IF drag.currentDirection # drag.nextDirection
             THEN <<drag.nextDirection[1] * PlayerSpeed,
                    drag.nextDirection[2] * PlayerSpeed>>
             ELSE player.velocity

\* C26: on a legal reconciliation DragSystem sets the target to the centre of
\* the cell (grid + candidate direction) and the committed direction to the
\* candidate; it sets the velocity to candidate direction x speed when the
\* candidate differs from the committed direction (or none was committed) and
\* leaves the velocity unchanged when the direction is the same.
C26_LegalReconciliation == [][C26_Step]_vars

\* Gliding on: 2 px into a move to the left from the last cell of the top
\* row, the same candidate was reconciled again and the target refreshed.
C26_Witness ==
    /\ pc = "idle"
    /\ player.grid = <<GameSize - 1, 0>>
    /\ player.position = <<CellCentre(player.grid)[1] - 2, HalfCell>>
    /\ player.target = CellCentre(<<GameSize - 2, 0>>)
    /\ player.moving
    /\ drag.currentDirection = <<-1, 0>>
    /\ drag.nextDirection = <<-1, 0>>

----------------------------------------------------------------------------
(* GridSystem: a target that is not walkable *)

\* A moving entity is within 3 px of a target whose cell is not walkable
NearUnwalkableTarget ==
    /\ player.moving
    /\ player.target # <<>>
    /\ Dist2(player.target, player.position) < 9
    /\ ~isWalkable(GameSize, terrainMap,
                   ClampGrid(player.target[1] \div CellSize),
                   ClampGrid(player.target[2] \div CellSize))

C27_Step ==
    (Ran("grid") /\ NearUnwalkableTarget) =>
       /\ player'.target = <<>>
       /\ ~player'.moving
       /\ player'.velocity = <<0, 0>>
       /\ player'.position = player.position

\* C27: whenever the world holds a terrain grid and a moving entity comes
\* within 3 px of a target whose cell is not walkable, GridSystem aborts the
\* snap: the target is cleared, moving is false, the velocity is zero and the
\* pixel position is left where it was.
C27_SnapAborted == [][C27_Step]_vars

----------------------------------------------------------------------------
(* DragSystem: a move off the grid edge *)

\* DragSystem.update reconciles a candidate that points out of the grid from
\* the border cell the entity stands on
EdgeAttempt ==
    /\ drag.nextDirection # <<>>
    /\ (~player.moving \/ Dist2(player.position, CellCentre(player.grid)) < 9)
    /\ player.grid = _updateGridPosition(player.position)
    /\ <<player.grid[1] + drag.nextDirection[1],
         player.grid[2] + drag.nextDirection[2]>> \notin Cells(GameSize)

C28_Step ==
    (Ran("drag") /\ EdgeAttempt) =>
       /\ player'.target = <<>>
       /\ ~player'.moving
       /\ player'.velocity = <<0, 0>>
       /\ drag'.currentDirection = <<>>
       /\ player'.position = player.position
       /\ player'.grid = player.grid
       /\ gameCurrentDirection' = "blocked"

\* C28: a move attempt off the grid edge (candidate direction pointing out of
\* bounds from a border cell) is handled like a terrain block: no move starts
\* (target null, velocity zero, committed direction cleared, pixel position
\* and grid coordinate unchanged) and the blocked state is surfaced for UI
\* feedback.
C28_EdgeIsBlocked == [][C28_Step]_vars

----------------------------------------------------------------------------
(* DragSystem: the candidate direction of a pointer-move *)

\* A pointer-move: between two frames, the finger is down before and after
PointerMoved ==
    /\ inputManager.touching /\ inputManager'.touching
    /\ pc = "idle" /\ pc' = "idle"

C29_Step ==
    PointerMoved =>
       LET dx == inputManager'.touch[1] - drag.dragStart[1]
           dy == inputManager'.touch[2] - drag.dragStart[2]
       IN  IF ~drag.dragging
           THEN drag' = drag /\ gameCurrentDirection' = gameCurrentDirection
           ELSE IF dx * dx + dy * dy < 10 * 10
           THEN drag' = drag /\ gameCurrentDirection' = gameCurrentDirection
           ELSE /\ drag'.dragging
                /\ drag'.dragStart = drag.dragStart
                /\ drag'.currentDirection = drag.currentDirection
                /\ drag'.nextDirection = <<1, 0>> <=>
                      (dx > 0 /\ 0 - dx <= dy /\ dy < dx)
                /\ drag'.nextDirection = <<0, 1>> <=>
                      (dy > 0 /\ 0 - dy < dx /\ dx <= dy)
                /\ drag'.nextDirection = <<0, -1>> <=>
                      (dy < 0 /\ dy <= dx /\ dx < 0 - dy)
                /\ drag'.nextDirection \in {<<1, 0>>, <<0, 1>>, <<0, -1>>, <<-1, 0>>}

\* C29: a pointer-move while dragging with a drag vector shorter than 10 px
\* leaves the candidate direction unchanged; otherwise the candidate becomes
\* the nearest cardinal direction, ties fixed by sector order: right iff
\* dx > 0 and -dx <= dy < dx, down iff dy > 0 and -dy < dx <= dy, up iff
\* dy < 0 and dy <= dx < -dy, left otherwise.  A pointer-move while not
\* dragging changes nothing.
C29_NearestCardinal == [][C29_Step]_vars

\* The finger was dragged onto the diagonal down and to the right, 10 px
\* each way, and the candidate is down.
C29_Witness ==
    /\ inputManager.touching
    /\ drag.dragging
    /\ inputManager.touch = <<drag.dragStart[1] + 10, drag.dragStart[2] + 10>>
    /\ drag.nextDirection = <<0, 1>>
    /\ gameCurrentDirection = "down"

----------------------------------------------------------------------------
(* MapGenerator._isConnected *)

\* No cut: every way of splitting the land cells in two leaves two adjacent
\* cells on different sides
SingleComponent(n, map) ==
    LET land == {c \in Cells(n) : map[c] = LAND}
    IN  \A part \in SUBSET land :
           (part # {} /\ part # land) =>
              \E a \in part, b \in land \ part :
                 Abs(a[1] - b[1]) + Abs(a[2] - b[2]) = 1

C30_Inv ==
    ret.op = "_isConnected" =>
       (ret.val <=> SingleComponent(gridSize, genMap[1]))

\* C30: _isConnected returns true for a grid iff its land cells form a single
\* component under 4-directional adjacency (or the grid has no land cell),
\* for every size x size grid of Water and Land values; it does not modify
\* the grid.
C30_ConnectedIffSingleComponent == []C30_Inv /\ [][genMap' = genMap]_vars

\* _isConnected answered false for the 3 x 3 grid whose land is two cells
\* that touch at a corner only.
C30_Witness ==
    /\ ret.op = "_isConnected"
    /\ ~ret.val
    /\ gridSize = 3
    /\ {c \in Cells(3) : genMap[1][c] = LAND} = {<<0, 0>>, <<1, 1>>}

\* C31: every grid returned by generateMap contains at least one land
\* (walkable) cell, for every size >= 1, every generation configuration and
\* every random outcome.
C31_HasLand ==
    genPc = "returned" =>
       \E c \in Cells(gridSize) : isTerrainWalkable(genResult[1][c])

\* What is held of a kind before a call: 0 when the ledger has no record of it
Held(type) ==
    IF \E i \in 1 .. Len(items) : items[i].type = type
    THEN (CHOOSE r \in {items[i] : i \in 1 .. Len(items)} : r.type = type).count
    ELSE 0

LedgerUntouched == items' = items /\ dirty' = dirty

C32_Step ==
    /\ (ret.op = "none" /\ ret'.op = "addItem") =>
          /\ ret'.count <= 0 => ~ret'.val /\ LedgerUntouched
          /\ ( /\ ret'.count > 0
               /\ Held(ret'.type) = 0
               /\ capacity > 0
               /\ Len(items) >= capacity ) => ~ret'.val /\ LedgerUntouched
          /\ (ret'.count > 0 /\ Held(ret'.type) > 0) =>
                /\ ret'.val
                /\ dirty'
                /\ Len(items') = Len(items)
                /\ \E i \in 1 .. Len(items') :
                      items'[i] = [type |-> ret'.type,
                                   count |-> Held(ret'.type) + ret'.count]
    /\ (ret.op = "none" /\ ret'.op = "removeItem") =>
          /\ ret'.count <= 0 => ~ret'.val /\ LedgerUntouched
          /\ Held(ret'.type) = 0 => ~ret'.val /\ LedgerUntouched
          /\ ret'.count > Held(ret'.type) => ~ret'.val /\ LedgerUntouched

\* C32: rejected ledger operations leave the ledger untouched.  addItem with
\* count <= 0, addItem of a new kind when capacity > 0 and the number of kinds
\* has reached capacity, removeItem with count <= 0, removeItem of an absent
\* kind and removeItem of more than is held all return false and change
\* neither the records nor the dirty flag; addItem to a kind already present
\* succeeds even at capacity.
C32_RejectedLeavesLedger == [][C32_Step]_vars

\* addItem of a new kind was refused by a full ledger whose dirty flag had
\* been cleared, and the flag is still clear.
C32_Witness ==
    /\ ret.op = "addItem"
    /\ ~ret.val
    /\ ret.count > 0
    /\ capacity > 0
    /\ Len(items) >= capacity
    /\ \A i \in 1 .. Len(items) : items[i].type # ret.type
    /\ ~dirty

\* C33: _createPlayer places the player on a walkable cell whenever the
\* terrain grid contains at least one walkable cell: the centre cell if it is
\* walkable, otherwise a walkable cell found by the outward ring search; the
\* player's initial pixel position is the centre of that cell.
C33_StartsOnWalkable ==
    pc = "idle" =>
       /\ player.position = CellCentre(player.grid)
       /\ (\E c \in Cells(gridSize) : isWalkable(gridSize, terrainMap, c[1], c[2])) =>
             /\ isWalkable(gridSize, terrainMap, player.grid[1], player.grid[2])
             /\ isWalkable(gridSize, terrainMap, gridSize \div 2, gridSize \div 2) =>
                   player.grid = <<gridSize \div 2, gridSize \div 2>>

\* The cell a pixel position is the centre of, when it is one
IsCentreOf(position, c) == position = CellCentre(c)

\* C34: the player never stands on illegal terrain.  With a walkable start
\* cell and the terrain not modified (no step of the game modifies it), after
\* any sequence of pointer events and frames of any duration the player's
\* grid coordinate is a walkable cell, and any target in flight is the centre
\* of a walkable cell orthogonally adjacent to that grid coordinate.
C34_NeverOnIllegalTerrain ==
    ( /\ pc = "idle"
      /\ isWalkable(GameSize, terrainMap,
                    StartCell(terrainMap)[1], StartCell(terrainMap)[2]) ) =>
       /\ player.grid \in Cells(GameSize)
       /\ isWalkable(GameSize, terrainMap, player.grid[1], player.grid[2])
       /\ player.target # <<>> =>
             \E c \in Cells(GameSize) :
                /\ IsCentreOf(player.target, c)
                /\ Abs(c[1] - player.grid[1]) + Abs(c[2] - player.grid[2]) = 1
                /\ isWalkable(GameSize, terrainMap, c[1], c[2])

\* A move in flight, away from the start cell, on a cell that has water
\* beside it, with the finger dragging towards that water.
C34_Witness ==
    /\ pc = "idle"
    /\ player.target # <<>>
    /\ player.grid # StartCell(terrainMap)
    /\ drag.nextDirection # <<>>
    /\ LET ahead == <<player.grid[1] + drag.nextDirection[1],
                      player.grid[2] + drag.nextDirection[2]>>
       IN  /\ ahead \in Cells(GameSize)
           /\ ~isWalkable(GameSize, terrainMap, ahead[1], ahead[2])

\* The ledger has room for the item and for what else lies uncollected on
\* its cell: no limit, its kind already held, or free records for all
LedgerHasRoomFor(i) ==
    \/ capacity <= 0
    \/ \E j \in 1 .. Len(items) : items[j].type = itemEnts[i].type
    \/ Len(items) + Cardinality({k \in ItemIds :
                                    /\ canBeCollected(itemEnts[k])
                                    /\ CellOf(itemEnts[k]) = CellOf(itemEnts[i])})
          <= capacity

\* The player's pixel position has reached the centre of the cell of an
\* uncollected collectable item by the end of a frame
ReachedItem(i) ==
    /\ pc = "idle"
    /\ canBeCollected(itemEnts[i])
    /\ player.position = CellCentre(CellOf(itemEnts[i]))
    /\ LedgerHasRoomFor(i)

\* The mover's step of the following frame, whatever its duration, is
\* followed by a grid step and a collection step that collects the item
C35_Step ==
    Ran("movement") =>
       \A i \in ItemIds :
          ReachedItem(i) =>
             LET p == GridSystem_update(player', GridSystem_terrainComponent)
                 st == CollectionSystem_update(p.grid,
                          [ents |-> itemEnts, items |-> items, dirty |-> dirty],
                          capacity)
             IN  st.ents[i].collected

\* C35: no item is skipped.  If the player's pixel position reaches the
\* centre of a cell holding an uncollected collectable item (the ledger
\* accepting it), the item is collected no later than the collection step of
\* the following frame, for every frame duration and also while the player
\* keeps gliding on in the same direction.
C35_NoItemSkipped == [][C35_Step]_vars

\* The player as the rest of the frame leaves it once the mover has run:
\* GridSystem, then DragSystem (CollectionSystem does not write the player)
EndOfFrame(p) ==
    DragSystem_update(GridSystem_update(p, GridSystem_terrainComponent),
                      drag, gameCurrentDirection,
                      DragSystem_terrainComponent).player

C36_Step ==
    Ran("movement") =>
       Abs(EndOfFrame(player').grid[1] - player.grid[1])
          + Abs(EndOfFrame(player').grid[2] - player.grid[2]) <= 1

\* C36: between the end of one frame and the end of the next, the entity's
\* grid coordinate either stays the same or changes to an orthogonally
\* adjacent cell; it never changes diagonally or by more than one cell, for
\* any frame duration and any pointer input.
C36_GridStepsOneCell == [][C36_Step]_vars

\* At the end of a frame the player is in flight from a cell diagonal to the
\* start cell: the grid coordinate has changed twice, one cell each time.
C36_Witness ==
    /\ pc = "idle"
    /\ player.target # <<>>
    /\ Abs(player.grid[1] - StartCell(terrainMap)[1]) = 1
    /\ Abs(player.grid[2] - StartCell(terrainMap)[2]) = 1

C37_Inv ==
    pc = "idle" => (player.target = <<>> => player.velocity = <<0, 0>>)

\* The mover leaves the position alone without a target, and with one it
\* moves no further from it and not past it on either axis
C37_Step ==
    Ran("movement") =>
       \/ player.target = <<>> /\ player'.position = player.position
       \/ /\ player.target # <<>>
          /\ Abs(player'.position[1] - player.target[1])
                <= Abs(player.position[1] - player.target[1])
          /\ Abs(player'.position[2] - player.target[2])
                <= Abs(player.position[2] - player.target[2])
          /\ (player'.position[1] - player.target[1])
                * (player.position[1] - player.target[1]) >= 0
          /\ (player'.position[2] - player.target[2])
                * (player.position[2] - player.target[2]) >= 0

\* C37: the entity never moves by free velocity integration.  At the end of
\* every frame, if no target is set then the velocity is zero, so
\* MovementSystem only ever moves the entity toward a target committed by
\* DragSystem and never past it.
C37_NoFreeIntegration == []C37_Inv /\ [][C37_Step]_vars

\* At the end of a frame the player rests away from the start cell, without
\* a target, while the finger still holds a direction.
C37_Witness ==
    /\ pc = "idle"
    /\ player.target = <<>>
    /\ player.grid # StartCell(terrainMap)
    /\ drag.nextDirection # <<>>
    /\ inputManager.touching

\* The item entities of a kind whose collected flag is true
CollectedOf(type) == {i \in ItemIds : itemEnts[i].type = type /\ itemEnts[i].collected}

\* What the ledger's records say of a kind: the sum over its records
LedgerCount(type) ==
    LET recs == {j \in 1 .. Len(items) : items[j].type = type}
    IN  IF recs = {} THEN 0
        ELSE IF Cardinality(recs) = 1 THEN items[CHOOSE j \in recs : TRUE].count
        ELSE 0 - 1

\* C38: in the collection flow (no removeItem or clear), at the end of every
\* frame the ledger count of each kind equals the number of items of that
\* kind whose collected flag is true.
C38_LedgerMatchesCollected ==
    pc = "idle" =>
       \A type \in Kinds \cup {itemEnts[i].type : i \in ItemIds} :
          LedgerCount(type) = Cardinality(CollectedOf(type))

\* Two coins collected and counted, with a seed still lying on the grid.
C38_Witness ==
    /\ pc = "idle"
    /\ Cardinality(CollectedOf("coin")) = 2
    /\ LedgerCount("coin") = 2
    /\ \E i \in ItemIds : itemEnts[i].type = "seed" /\ ~itemEnts[i].collected

\* The direction of the move in flight: from the grid coordinate to the cell
\* of the target
FlightDirection ==
    <<player.target[1] \div CellSize - player.grid[1],
      player.target[2] \div CellSize - player.grid[2]>>

\* C39: velocity is consistent with the motion state at the end of every
\* frame.  While a move is in flight (target set, moving = true) the velocity
\* equals the committed direction times the movement speed, including across
\* consecutive cells of a same-direction glide, and while the entity is at
\* rest the velocity is zero; the movement speed itself (the length
\* setVelocity recomputes from the vector) is never changed by committing or
\* stopping moves.
C39_VelocityConsistent ==
    pc = "idle" =>
       /\ (player.target # <<>> /\ player.moving) =>
             player.velocity = <<FlightDirection[1] * PlayerSpeed,
                                 FlightDirection[2] * PlayerSpeed>>
       /\ (player.target = <<>> /\ ~player.moving) => player.velocity = <<0, 0>>
       /\ player.velocity # <<0, 0>> =>
             Sq(player.velocity[1]) + Sq(player.velocity[2]) = Sq(PlayerSpeed)

\* The candidate direction d is held
DirectionHeld(d) == inputManager.touching /\ drag.nextDirection = d

\* The player rests in a cell whose neighbour in direction d is off the grid
\* or not walkable
RestsAtEnd(d) ==
    /\ player.target = <<>>
    /\ ~player.moving
    /\ isWalkable(GameSize, terrainMap, player.grid[1], player.grid[2])
    /\ \/ <<player.grid[1] + d[1], player.grid[2] + d[2]>> \notin Cells(GameSize)
       \/ ~isWalkable(GameSize, terrainMap, player.grid[1] + d[1], player.grid[2] + d[2])

\* C40: if a candidate direction is held continuously and frames of positive
\* duration keep running, the entity advances cell by cell in that direction
\* and eventually comes to rest for good in the last walkable cell before
\* the first non-walkable cell or the grid edge in that direction; it never
\* stalls before that cell.
C40_GlideEnds ==
    /\ <>[]DirectionHeld(<<1, 0>>) => <>[]RestsAtEnd(<<1, 0>>)
    /\ <>[]DirectionHeld(<<-1, 0>>) => <>[]RestsAtEnd(<<-1, 0>>)
    /\ <>[]DirectionHeld(<<0, 1>>) => <>[]RestsAtEnd(<<0, 1>>)
    /\ <>[]DirectionHeld(<<0, -1>>) => <>[]RestsAtEnd(<<0, -1>>)

\* The player rests on the right border of the all-land grid, away from the
\* start cell, while the finger still holds the direction right.
C40_Witness ==
    /\ pc = "idle"
    /\ terrainMap = AllLandMap
    /\ DirectionHeld(<<1, 0>>)
    /\ RestsAtEnd(<<1, 0>>)
    /\ player.grid[1] = GameSize - 1
    /\ player.grid # StartCell(terrainMap)

====
